---- MODULE Spec2Model ----
(***************************************************************************)
(* Model of the chromaticity colour picker: the colour conversion library  *)
(* (src/src/utils/colorConversions.ts), the picker component               *)
(* (src/src/components/ChromaticityColorPicker.tsx) and the App that hosts *)
(* it (src/unnamed/part_000).                                              *)
(*                                                                         *)
(* JavaScript numbers are modelled as what they are, IEEE 754 binary64     *)
(* values: +, -, *, /, Math.sqrt, Math.round and decimal literals are      *)
(* exact, rounded to the nearest double, ties to even, with signed zeros,  *)
(* gradual underflow, Infinity and NaN.  Math.atan2 and Math.pow are the   *)
(* sequences of double operations V8 runs (its ieee754::atan2 and          *)
(* ieee754::pow, which follow fdlibm): their results are the doubles V8    *)
(* returns, which are not always the doubles nearest to the angle or to    *)
(* the power.                                                              *)
(***************************************************************************)
EXTENDS Integers, Sequences, FiniteSets, TLC

(***************************************************************************)
(* Natural numbers of any size: little-endian sequences of limbs in base   *)
(* 2^LimbBits, without leading zero limbs (zero is the empty sequence).    *)
(***************************************************************************)
LimbBits == 12

Base == 2^LimbBits

Max2(x, y) == IF x >= y THEN x ELSE y

Min2(x, y) == IF x <= y THEN x ELSE y

Limb(a, i) == IF i >= 1 /\ i <= Len(a) THEN a[i] ELSE 0

\* The index of the top nonzero limb, 0 when there is none.
TopIndex(a) ==
  CHOOSE i \in 0..Len(a) : (i = 0 \/ a[i] # 0) /\ \A k \in (i+1)..Len(a) : a[k] = 0

Trim(a) == SubSeq(a, 1, TopIndex(a))

\* One pass of carry propagation: every limb keeps its low part and takes
\* the high part of the limb below.
Pass(p) == [i \in 1..(Len(p)+1) |-> (Limb(p, i) % Base) + (Limb(p, i-1) \div Base)] \o << >>

\* The last step, on limbs in 0..2*Base-2: the carry into limb i is 1 iff
\* some limb below is Base or more and every limb between is Base-1 or more.
CarryIn(d, i) ==
  IF \E j \in 1..(i-1) : d[j] >= Base /\ \A k \in (j+1)..(i-1) : d[k] >= Base - 1
  THEN 1 ELSE 0

Ripple(d) == [i \in 1..(Len(d)+1) |-> (Limb(d, i) + CarryIn(d, i)) % Base] \o << >>

\* Limbs in 0..2*Base-2 to limbs in 0..Base-1.
Finish(d) == IF \A i \in 1..Len(d) : d[i] < Base THEN Trim(d) ELSE Trim(Ripple(d))

\* Limbs in 0..2^31-1 to limbs in 0..Base-1: two passes bring them below
\* Base + 130.
Carry(raw) == Finish(Pass(Pass(raw \o << >>)))

\* The borrow into limb i, on limbs in -1..Base-1.
BorrowIn(d, i) ==
  IF \E j \in 1..(i-1) : d[j] = -1 /\ \A k \in (j+1)..(i-1) : d[k] <= 0
  THEN 1 ELSE 0

Settle(d) ==
  IF \A i \in 1..Len(d) : d[i] >= 0 THEN d
  ELSE [i \in 1..Len(d) |-> (d[i] - BorrowIn(d, i)) % Base] \o << >>

NAdd(a, b) ==
  CASE Len(a) = 0 -> b
    [] Len(b) = 0 -> a
    [] OTHER -> Finish([i \in 1..Max2(Len(a), Len(b)) |-> Limb(a, i) + Limb(b, i)] \o << >>)

\* a - b for a >= b.
NSub(a, b) ==
  IF Len(b) = 0 THEN a
  ELSE Trim(Settle(Pass([i \in 1..Max2(Len(a), Len(b)) |-> Limb(a, i) - Limb(b, i)] \o << >>)))

\* a * r for 0 <= r <= Base: one pass brings the limbs below 2 * Base - 1.
NMulSmall(a, r) ==
  IF Len(a) = 0 \/ r = 0 THEN << >>
  ELSE Finish(Pass([i \in 1..Len(a) |-> a[i] * r] \o << >>))

\* The sum of a[i] * b[k-i+1] for i in lo..hi, by halves.
RECURSIVE ColSum(_, _, _, _, _)
ColSum(a, b, k, lo, hi) ==
  IF lo > hi THEN 0
  ELSE IF lo = hi THEN a[lo] * b[k - lo + 1]
  ELSE ColSum(a, b, k, lo, (lo + hi) \div 2) + ColSum(a, b, k, ((lo + hi) \div 2) + 1, hi)

NMulDirect(a, b) ==
  Carry([k \in 1..(Len(a) + Len(b) - 1) |->
           ColSum(a, b, k, Max2(1, k - Len(b) + 1), Min2(k, Len(a)))])

NShift(a, k) == IF Len(a) = 0 THEN << >> ELSE [i \in 1..k |-> 0] \o a

\* A column sums at most Chunk products of two limbs, which stays below 2^31.
Chunk == 2^(30 - 2 * LimbBits)

RECURSIVE NMul(_, _)
NMul(a, b) ==
  CASE Len(a) = 0 \/ Len(b) = 0 -> << >>
    [] Len(a) <= Chunk \/ Len(b) <= Chunk -> NMulDirect(a, b)
    [] OTHER -> NAdd(NMulDirect(SubSeq(a, 1, Chunk), b),
                     NShift(NMul(SubSeq(a, Chunk + 1, Len(a)), b), Chunk))

\* The index of the top limb where a and b (of one length, a # b) differ.
TopDiff(a, b) ==
  CHOOSE i \in 1..Len(a) : a[i] # b[i] /\ \A k \in (i+1)..Len(a) : a[k] = b[k]

CmpAt(a, b, i) == IF a[i] < b[i] THEN -1 ELSE 1

\* -1, 0, 1 as a < b, a = b, a > b.
NCmp(a, b) ==
  CASE Len(a) < Len(b) -> -1
    [] Len(a) > Len(b) -> 1
    [] a = b -> 0
    [] OTHER -> CmpAt(a, b, TopDiff(a, b))

NLe(a, b) == NCmp(a, b) <= 0

\* A natural number below 2^31 as limbs.
NFromInt(n) == Trim(<<n % Base, (n \div Base) % Base, n \div (Base * Base)>>)

\* The inverse, for numbers below 2^31.
NToInt(a) == Limb(a, 1) + Base * Limb(a, 2) + Base * Base * Limb(a, 3)

\* The number of binary digits of a limb, and of a.
LimbLen(t) == IF t = 0 THEN 0 ELSE CHOOSE k \in 1..LimbBits : 2^(k-1) <= t /\ t < 2^k

BitLen(a) == IF Len(a) = 0 THEN 0 ELSE LimbBits * (Len(a) - 1) + LimbLen(a[Len(a)])

\* a * 2^k
NShl(a, k) ==
  IF Len(a) = 0 THEN << >> ELSE NShift(NMulSmall(a, 2^(k % LimbBits)), k \div LimbBits)

\* floor(h / r) for r a power of 2 below Base.
NDivSmall(h, r) ==
  Trim([i \in 1..Len(h) |-> (h[i] \div r) + (Limb(h, i + 1) % r) * (Base \div r)] \o << >>)

\* floor(a / 2^k)
NShr(a, k) ==
  IF Len(a) <= k \div LimbBits THEN << >>
  ELSE NDivSmall(SubSeq(a, (k \div LimbBits) + 1, Len(a)), 2^(k % LimbBits))

\* a is no multiple of 2^k.
LowBits(a, k) ==
  \E i \in 1..Min2(Len(a), (k \div LimbBits) + 1) :
    IF i <= k \div LimbBits THEN a[i] # 0 ELSE a[i] % 2^(k % LimbBits) # 0

\* a^n from h = a^(n \div 2).
NPowUp(a, n, h) == NMul(NMul(h, h), IF n % 2 = 0 THEN <<1>> ELSE a)

\* A quotient limb q with the remainder r - q * d.
QTake(r, d, q) == <<q, NSub(r, NMulSmall(d, q))>>

\* The largest q with q * d <= r among qh, qh - 1, qh - 2.
QFit(r, d, qh) ==
  CASE qh = 0 -> 0
    [] NLe(NMulSmall(d, qh), r) -> qh
    [] NLe(NMulSmall(d, qh - 1), r) -> qh - 1
    [] OTHER -> qh - 2

QPick(r, d, qh) == QTake(r, d, QFit(r, d, qh))

\* <<q, r - q * d>> for the largest q with q * d <= r, where r < Base * d and
\* the top limb of d is at least Base / 2: the quotient of the top limbs is q,
\* q + 1 or q + 2.
QLimb(r, d) ==
  IF Len(r) < Len(d) THEN <<0, r>>
  ELSE QPick(r, d, Min2(Base - 1,
                        (Limb(r, Len(d) + 1) * Base + Limb(r, Len(d))) \div d[Len(d)]))

\* Long division, limb by limb from the top; q is the quotient so far and ql
\* the next quotient limb with the remainder it leaves.
RECURSIVE DivStep(_, _, _, _)
DivNext(a, d, i, q, ql) ==
  IF ql[1] >= 0 THEN DivStep(a, d, i - 1, <<(<<ql[1]>> \o q), ql[2]>>) ELSE << >>

DivStep(a, d, i, st) ==
  IF i = 0 THEN st
  ELSE DivNext(a, d, i, st[1], QLimb(Trim(<<a[i]>> \o st[2]), d))

\* <<floor(a / d), a - floor(a / d) * d>> for d with a top limb of at least
\* Base / 2: the top Len(d) - 1 limbs of a are below d and start as the
\* remainder.
NDivNormal(a, d) ==
  IF Len(a) < Len(d) THEN <<(<< >>), a>>
  ELSE DivStep(a, d, Len(a) - Len(d) + 1,
               <<(<< >>), SubSeq(a, Len(a) - Len(d) + 2, Len(a))>>)

\* <<floor(a / d), r>> for d > 0, r being zero if and only if d divides a:
\* a and d are shifted by s to bring the top limb of d up.
NDivBy(a, d, s) == NDivNormal(NShl(a, s), NShl(d, s))

NDivRem(a, d) == NDivBy(a, d, LimbBits - LimbLen(d[Len(d)]))

\* floor(a / d) for d > 0
NDiv(a, d) == Trim(NDivRem(a, d)[1])

\* 10^k
RECURSIVE NPow10(_)
NPow10(k) ==
  IF k <= 9 THEN NFromInt(10^k) ELSE NPowUp(<<10>>, k, NPow10(k \div 2))

\* Newton's iteration for floor(sqrt(t)) from y above it: the iterates
\* floor((y + floor(t / y)) / 2) decrease until they reach it.
RECURSIVE Newton(_, _)
NewtonNext(t, y, z) == IF NCmp(z, y) < 0 THEN Newton(t, z) ELSE y

Newton(t, y) == IF Len(y) = 0 THEN << >> ELSE NewtonNext(t, y, NShr(NAdd(y, NDiv(t, y)), 1))

\* floor(sqrt(t)), starting at the power of 2 above the root.
NSqrt(t) == IF Len(t) = 0 THEN << >> ELSE Newton(t, NShl(<<1>>, (BitLen(t) + 1) \div 2))

(***************************************************************************)
(* JavaScript numbers.  A finite number is [sg, m, e] and stands for       *)
(* sg * m * 2^e: sg is 1 or -1, m is below 2^MantBits and e is in          *)
(* MinExp..MaxExp; m is 2^(MantBits-1) or more (a normal number), or above *)
(* zero with e = MinExp (a subnormal one), or zero with e = 0 (+0 and -0). *)
(* The others are NaN and Infinity(sg).                                    *)
(***************************************************************************)
MantBits == 53

MinExp == -1074

MaxExp == 971

\* Binary digits kept below the last one of a quotient, a root or an aligned
\* sum before it is rounded.
GuardBits == 4

NaN == [kind |-> "NaN"]

Infinity(sg) == [kind |-> "Infinity", sg |-> sg]

IsFinite(a) == "m" \in DOMAIN a

IsNaN(a) == ~IsFinite(a) /\ a.kind = "NaN"

IsInfinite(a) == ~IsFinite(a) /\ a.kind = "Infinity"

IsZero(a) == IsFinite(a) /\ Len(a.m) = 0

SignedZero(sg) == [sg |-> sg, m |-> << >>, e |-> 0]

Zero == SignedZero(1)

\* sg * m * 2^e for m of at most MantBits + 1 binary digits, the last one 0
\* where there are that many.
Pack(sg, m, e) ==
  CASE Len(m) = 0 -> SignedZero(sg)
    [] BitLen(m) > MantBits ->
         IF e + 1 > MaxExp THEN Infinity(sg) ELSE [sg |-> sg, m |-> NShr(m, 1), e |-> e + 1]
    [] e > MaxExp -> Infinity(sg)
    [] OTHER -> [sg |-> sg, m |-> m, e |-> e]

\* q2 is the number to the place below the last one kept and low says that
\* something is left below q2: the nearest number at the last place, ties
\* to the even one.
RoundUp(q2, low) == Limb(q2, 1) % 2 = 1 /\ (low \/ Limb(q2, 1) % 4 >= 2)

Nearest(q2, low) == NAdd(NShr(q2, 1), IF RoundUp(q2, low) THEN <<1>> ELSE << >>)

\* m with s places dropped, or with -s places more.
Dropped(m, sticky, s) ==
  IF s <= 0 THEN NShl(m, -s) ELSE Nearest(NShr(m, s - 1), sticky \/ LowBits(m, s - 1))

RoundAt(sg, m, e, sticky, s) == Pack(sg, Dropped(m, sticky, s), e + s)

\* The double nearest to sg * m * 2^e for m > 0, or, with sticky, to a
\* number between sg * m * 2^e and sg * (m + 1) * 2^e, m then having
\* MantBits + 2 binary digits or more.
Round(sg, m, e, sticky) == RoundAt(sg, m, e, sticky, Max2(BitLen(m) - MantBits, MinExp - e))

\* sg * n / d * 2^e for n, d > 0: the quotient is taken with k more places,
\* qr being the quotient and what the division leaves.
RatioAt(sg, qr, e) == Round(sg, Trim(qr[1]), e, Len(qr[2]) # 0)

RatioBy(sg, n, d, e, k) == RatioAt(sg, NDivRem(NShl(n, k), d), e - k)

Ratio(sg, n, d, e) ==
  RatioBy(sg, n, d, e, Max2(0, MantBits + GuardBits + BitLen(d) - BitLen(n)))

\* The integer literal n, |n| < 2^31.
Num(n) ==
  IF n = 0 THEN Zero
  ELSE Round(IF n < 0 THEN -1 ELSE 1, NFromInt(IF n < 0 THEN -n ELSE n), 0, FALSE)

\* The decimal literal n * 10^(-k), |n| < 2^31.
F(n, k) ==
  IF n = 0 THEN Zero
  ELSE Ratio(IF n < 0 THEN -1 ELSE 1, NFromInt(IF n < 0 THEN -n ELSE n), NPow10(k), 0)

\* The digits of the groups g[1..i], seven to a group after the first.
RECURSIVE Digits(_, _)
Digits(g, i) ==
  IF i = 0 THEN << >>
  ELSE NAdd(NMul(Digits(g, i - 1), NFromInt(10000000)), NFromInt(g[i]))

\* The decimal literal with the digits of g and k of them after the point.
Literal(sg, g, k) == Ratio(sg, Digits(g, Len(g)), NPow10(k), 0)

FNeg(a) ==
  CASE a = NaN -> NaN
    [] IsInfinite(a) -> Infinity(-a.sg)
    [] OTHER -> [sg |-> -a.sg, m |-> a.m, e |-> a.e]

\* -1, 0, 1 as |a| < |b|, |a| = |b|, |a| > |b|, for finite a and b.
CmpMag(a, b) ==
  CASE Len(a.m) = 0 -> IF Len(b.m) = 0 THEN 0 ELSE -1
    [] Len(b.m) = 0 -> 1
    [] a.e # b.e -> IF a.e < b.e THEN -1 ELSE 1
    [] OTHER -> NCmp(a.m, b.m)

\* The sign of a as -1, 0 or 1, for a that is not NaN.
Sign(a) == IF IsZero(a) THEN 0 ELSE a.sg

CmpFinite(a, b) ==
  IF Sign(a) # Sign(b) THEN (IF Sign(a) < Sign(b) THEN -1 ELSE 1)
  ELSE Sign(a) * CmpMag(a, b)

\* -1, 0, 1 as a < b, a = b, a > b, and 2 where one of them is NaN.
FCmp(a, b) ==
  CASE a = NaN \/ b = NaN -> 2
    [] IsInfinite(a) -> IF IsInfinite(b) /\ a.sg = b.sg THEN 0 ELSE a.sg
    [] IsInfinite(b) -> -b.sg
    [] OTHER -> CmpFinite(a, b)

\* ===
FEq(a, b) == FCmp(a, b) = 0

FLt(a, b) == FCmp(a, b) = -1

FLe(a, b) == FCmp(a, b) \in {-1, 0}

FGt(a, b) == FCmp(a, b) = 1

FGe(a, b) == FCmp(a, b) \in {0, 1}

\* sg and m of a + b = sg * m * 2^e for finite a and b, neither zero, where
\* am is a's m and bm is b's m at that e, and c compares am with bm.
SumOf(a, b, am, bm, c) ==
  CASE a.sg = b.sg -> <<a.sg, NAdd(am, bm)>>
    [] c = 0 -> <<1, << >> >>
    [] c > 0 -> <<a.sg, NSub(am, bm)>>
    [] OTHER -> <<b.sg, NSub(bm, am)>>

\* The double nearest to p[1] * p[2] * 2^e.
RoundSum(p, e, far) == Round(p[1], p[2], e, far)

AddParts(a, b, am, bm, e, far) == RoundSum(SumOf(a, b, am, bm, NCmp(am, bm)), e, far)

\* a + b for a.e >= b.e.  With b far below the last place of a, all that
\* counts of b is on which side of a the sum is.
AddAligned(a, b, far) ==
  AddParts(a, b, NShl(a.m, IF far THEN GuardBits ELSE a.e - b.e),
           IF ~far THEN b.m ELSE IF a.sg = b.sg THEN << >> ELSE <<1>>,
           IF far THEN a.e - GuardBits ELSE b.e, far)

AddOrdered(a, b) == AddAligned(a, b, a.e - b.e > MantBits + GuardBits)

AddFinite(a, b) ==
  CASE Len(a.m) = 0 ->
         IF Len(b.m) = 0 THEN SignedZero(IF a.sg = -1 /\ b.sg = -1 THEN -1 ELSE 1) ELSE b
    [] Len(b.m) = 0 -> a
    [] OTHER -> AddOrdered(IF a.e >= b.e THEN a ELSE b, IF a.e >= b.e THEN b ELSE a)

FAdd(a, b) ==
  CASE a = NaN \/ b = NaN -> NaN
    [] IsInfinite(a) -> IF IsInfinite(b) /\ a.sg # b.sg THEN NaN ELSE a
    [] IsInfinite(b) -> b
    [] OTHER -> AddFinite(a, b)

FSub(a, b) == IF b = NaN THEN NaN ELSE FAdd(a, FNeg(b))

FMul(a, b) ==
  CASE a = NaN \/ b = NaN -> NaN
    [] IsInfinite(a) \/ IsInfinite(b) -> IF IsZero(a) \/ IsZero(b) THEN NaN ELSE Infinity(a.sg * b.sg)
    [] Len(a.m) = 0 \/ Len(b.m) = 0 -> SignedZero(a.sg * b.sg)
    [] OTHER -> Round(a.sg * b.sg, NMul(a.m, b.m), a.e + b.e, FALSE)

FDiv(a, b) ==
  CASE a = NaN \/ b = NaN -> NaN
    [] IsInfinite(a) -> IF IsInfinite(b) THEN NaN ELSE Infinity(a.sg * b.sg)
    [] IsInfinite(b) -> SignedZero(a.sg * b.sg)
    [] Len(b.m) = 0 -> IF Len(a.m) = 0 THEN NaN ELSE Infinity(a.sg * b.sg)
    [] Len(a.m) = 0 -> SignedZero(a.sg * b.sg)
    [] OTHER -> Ratio(a.sg * b.sg, a.m, b.m, a.e - b.e)

FAbs(a) ==
  CASE a = NaN -> NaN
    [] IsInfinite(a) -> Infinity(1)
    [] OTHER -> [sg |-> 1, m |-> a.m, e |-> a.e]

\* Math.max, Math.min of two numbers: NaN if one of them is, and +0 above -0.
FMax(a, b) ==
  CASE a = NaN \/ b = NaN -> NaN
    [] IsZero(a) /\ IsZero(b) -> SignedZero(IF a.sg = 1 \/ b.sg = 1 THEN 1 ELSE -1)
    [] FGe(a, b) -> a
    [] OTHER -> b

FMin(a, b) ==
  CASE a = NaN \/ b = NaN -> NaN
    [] IsZero(a) /\ IsZero(b) -> SignedZero(IF a.sg = -1 \/ b.sg = -1 THEN -1 ELSE 1)
    [] FLe(a, b) -> a
    [] OTHER -> b

\* Math.sqrt: the root of m * 2^k, with k making the root long enough and
\* e - k even.
RootOf(t, r, e) == Round(1, r, e, NMul(r, r) # t)

RootAt(m, e, k) == RootOf(NShl(m, k), NSqrt(NShl(m, k)), (e - k) \div 2)

RootFrom(m, e, k0) == RootAt(m, e, k0 + ((e - k0) % 2))

FSqrt(v) ==
  CASE IsNaN(v) -> NaN
    [] IsZero(v) -> v
    [] v.sg = -1 -> NaN
    [] IsInfinite(v) -> v
    [] OTHER -> RootFrom(v.m, v.e, Max2(0, 2 * (MantBits + GuardBits) - BitLen(v.m)))

\* floor(|a|) for a finite a.
IntPart(a) == IF a.e >= 0 THEN NShl(a.m, a.e) ELSE NShr(a.m, -a.e)

\* Math.round: the nearest integer, halves toward +Infinity.
FRound(a) ==
  CASE ~IsFinite(a) -> a
    [] a.e >= 0 \/ Len(a.m) = 0 -> a
    [] -a.e > MantBits + 1 -> SignedZero(a.sg)
    [] OTHER ->
         Round(a.sg,
               NShr(NSub(NAdd(a.m, NShl(<<1>>, -a.e - 1)), IF a.sg = 1 THEN << >> ELSE <<1>>),
                    -a.e),
               0, FALSE)

\* The last d decimal digits of n.
RECURSIVE DigitsStr(_, _)
DigitsStr(n, d) == IF d = 0 THEN "" ELSE DigitsStr(n \div 10, d - 1) \o ToString(n % 10)

\* The decimal digits of a natural number; q is floor(a / 1000).
RECURSIVE DecStr(_)
DecMore(a, q) == DecStr(q) \o DigitsStr(NToInt(NSub(a, NMulSmall(q, 1000))), 3)

DecStr(a) == IF Len(a) <= 2 THEN ToString(NToInt(a)) ELSE DecMore(a, NDiv(a, <<1000>>))

\* n * 10^(-d) printed with d decimals, d > 0; p is 10^d and ip is
\* floor(n / p).
FixedOf(n, d, p, ip) == DecStr(ip) \o "." \o DigitsStr(NToInt(NSub(n, NMul(ip, p))), d)

FixedBy(n, d, p) == FixedOf(n, d, p, NDiv(n, p))

FixedStr(n, d) == FixedBy(n, d, NPow10(d))

\* |a| * 10^d to the nearest integer, halves upward, for a finite a; t is
\* |a| * 10^d / 2^a.e.
ScaledOf(a, t) ==
  IF a.e >= 0 THEN NShl(t, a.e) ELSE NShr(NAdd(t, NShl(<<1>>, -a.e - 1)), -a.e)

Scaled(a, d) == ScaledOf(a, NMul(a.m, NPow10(d)))

\* Number.prototype.toFixed(d) for 0 < d < 10 and |a| < 10^21.
FToFixed(a, d) ==
  CASE IsNaN(a) -> "NaN"
    [] IsInfinite(a) -> IF a.sg = 1 THEN "Infinity" ELSE "-Infinity"
    [] OTHER -> (IF a.sg = -1 /\ Len(a.m) # 0 THEN "-" ELSE "") \o FixedStr(Scaled(a, d), d)

\* String(a) for a without a fraction, |a| < 10^21.
NumStr(a) ==
  CASE IsNaN(a) -> "NaN"
    [] IsInfinite(a) -> IF a.sg = 1 THEN "Infinity" ELSE "-Infinity"
    [] OTHER -> (IF a.sg = -1 /\ Len(a.m) # 0 THEN "-" ELSE "") \o DecStr(IntPart(a))
(***************************************************************************)
(* Math.atan2, as V8 computes it (the atan and atan2 of fdlibm): double    *)
(* operations on the constants below.                                      *)
(***************************************************************************)
\* The doubles of a table of decimal literals: sign, digits, and the number
\* of digits after the point.
Literals(t) == [i \in 1..Len(t) |-> Literal(t[i][1], t[i][2], t[i][3])] \o << >>

\* atan(0.5), atan(1), atan(1.5) and atan(inf), high parts
atanhi ==
  Literals(<< <<1, <<4636476, 0900080, 6093515>>, 21>>,
              <<1, <<7853981, 6339744, 8278999>>, 21>>,
              <<1, <<9827937, 2324732, 9054082>>, 21>>,
              <<1, <<1570796, 3267948, 9655800>>, 20>> >>)

\* and their low parts
atanlo ==
  Literals(<< <<1, <<2269877, 7452961, 6870924>>, 37>>,
              <<1, <<3061616, 9978683, 8301793>>, 37>>,
              <<1, <<1390331, 1031230, 9984516>>, 37>>,
              <<1, <<6123233, 9957367, 6603587>>, 37>> >>)

\* The coefficients of the polynomial of atan
aT ==
  Literals(<< <<1, <<3333333, 3333332, 9318027>>, 21>>,
              <<-1, <<1999999, 9999876, 4832476>>, 21>>,
              <<1, <<1428571, 4272503, 4663711>>, 21>>,
              <<-1, <<1111111, 0405462, 3557880>>, 21>>,
              <<1, <<9090887, 1334365, 0656196>>, 22>>,
              <<-1, <<7691876, 2050448, 2999495>>, 22>>,
              <<1, <<6661073, 1373875, 3120669>>, 22>>,
              <<-1, <<5833570, 1337905, 7348645>>, 22>>,
              <<1, <<4976877, 9946159, 3236017>>, 22>>,
              <<-1, <<3653157, 2744216, 9155270>>, 22>>,
              <<1, <<1628582, 0115365, 7823623>>, 22>> >>)

\* c[i] + w*(c[i+d] + w*(... + w*(c[k] + w*acc))), i being the least of
\* k, k - d, k - 2d, ... above 0: the sum is taken from its last term, and a
\* NaN stays one.
RECURSIVE Poly(_, _, _, _, _)
Poly(c, w, k, d, acc) ==
  IF k < 1 \/ acc = NaN THEN acc ELSE Poly(c, w, k - d, d, FAdd(c[k], FMul(w, acc)))

\* s1 + s2 for
\* s1 = z*(aT[0]+w*(aT[2]+w*(aT[4]+w*(aT[6]+w*(aT[8]+w*aT[10]))))) and
\* s2 = w*(aT[1]+w*(aT[3]+w*(aT[5]+w*(aT[7]+w*aT[9]))))
AtanSum(c, z, w) ==
  FAdd(FMul(z, Poly(c, w, 9, 2, c[11])), FMul(w, Poly(c, w, 8, 2, c[10])))

\* x*(s1+s2) for z = x*x
AtanTail(x, z) == FMul(x, AtanSum(aT, z, FMul(z, z)))

\* The reduced argument of the interval id, for x > 0: (2x-1)/(2+x),
\* (x-1)/(x+1), (x-1.5)/(1+1.5x), -1/x; with id = 0 x is left as it is.
AtanArg(x, id) ==
  CASE id = 0 -> x
    [] id = 1 -> FDiv(FSub(FMul(Num(2), x), Num(1)), FAdd(Num(2), x))
    [] id = 2 -> FDiv(FSub(x, Num(1)), FAdd(x, Num(1)))
    [] id = 3 -> FDiv(FSub(x, F(15, 1)), FAdd(Num(1), FMul(F(15, 1), x)))
    [] id = 4 -> FDiv(Num(-1), x)

\* x - x*(s1+s2) with id = 0, and atanhi[id] - ((x*(s1+s2) - atanlo[id]) - x)
\* otherwise, for the reduced argument x and t = x*(s1+s2).
AtanOf(x, id, t) ==
  IF id = 0 THEN FSub(x, t) ELSE FSub(atanhi[id], FSub(FSub(t, atanlo[id]), x))

AtanAt(x, id) == AtanOf(x, id, AtanTail(x, FMul(x, x)))

\* The interval of |x|: below 0.4375, below 0.6875, below 1.1875, below
\* 2.4375, and from there on.
AtanInterval(x) ==
  CASE FLt(x, F(4375, 4)) -> 0
    [] FLt(x, F(6875, 4)) -> 1
    [] FLt(x, F(11875, 4)) -> 2
    [] FLt(x, F(24375, 4)) -> 3
    [] OTHER -> 4

\* z, or -z where x was reduced and is negative.
AtanSigned(x, id, z) == IF id > 0 /\ x.sg = -1 THEN FNeg(z) ELSE z

\* atan(x) for 2^-29 <= |x| < 2^66: x = fabs(x) unless id = 0.
AtanIn(x, id) == AtanSigned(x, id, AtanAt(AtanArg(IF id = 0 THEN x ELSE FAbs(x), id), id))

\* 2^66 and 2^-29
AtanHuge == Pack(1, NShl(<<1>>, MantBits - 1), 66 - (MantBits - 1))

AtanTiny == Pack(1, NShl(<<1>>, MantBits - 1), -29 - (MantBits - 1))

\* atan
FAtan(x) ==
  CASE IsNaN(x) -> NaN
    [] FGe(FAbs(x), AtanHuge) ->
         IF x.sg = 1 THEN FAdd(atanhi[4], atanlo[4]) ELSE FSub(FNeg(atanhi[4]), atanlo[4])
    [] FLt(FAbs(x), AtanTiny) -> x
    [] OTHER -> AtanIn(x, AtanInterval(FAbs(x)))

\* The constants of atan2.
tiny == Round(1, Digits(<<60, 3205720, 5060441>>, 3), -1049, FALSE)

pi_o_4 == Literal(1, <<785398, 1633974, 4827900>>, 20)

pi_o_2 == Literal(1, <<157079, 6326794, 8965580>>, 19)

pi == Literal(1, <<314159, 2653589, 7931160>>, 19)

pi_lo == Literal(1, <<122464, 6799147, 3531772>>, 35)

\* Math.PI
PI == Literal(1, <<31, 4159265, 3589793>>, 15)

\* The high word of a finite double without its sign bit: the exponent field
\* and the upper 20 bits of the fraction.
HighWord(a) ==
  IF Len(a.m) = 0 THEN 0 ELSE (a.e - MinExp) * 2^20 + NToInt(NShr(a.m, 32))

\* d >> 20
WordShift(d) == IF d >= 0 THEN d \div 2^20 ELSE -((2^20 - 1 - d) \div 2^20)

\* z of atan2 for finite y and x, neither zero, with k = (iy - ix) >> 20 and
\* a = atan(fabs(y/x)).
AngleOf(x, k, a, h, lo) ==
  CASE k > 60 -> FAdd(h, FMul(F(5, 1), lo))
    [] x.sg = -1 /\ k < -60 -> Zero
    [] OTHER -> a

\* The switch on m = 2 * sign(x) + sign(y): what atan2 returns for the
\* four values p0, p1, p2, p3.
Quadrant(y, x, p0, p1, p2, p3) ==
  CASE x.sg = 1 /\ y.sg = 1 -> p0
    [] x.sg = 1 -> p1
    [] y.sg = 1 -> p2
    [] OTHER -> p3

\* p + tiny with a + sign and -p - tiny with a - sign
Tilted(sg, p, t) == IF sg = 1 THEN FAdd(p, t) ELSE FSub(FNeg(p), t)

\* z, -z, pi - (z - pi_lo), (z - pi_lo) - pi by the signs of x and y
Turned(y, x, z, p, lo) ==
  Quadrant(y, x, z, FNeg(z), FSub(p, FSub(z, lo)), FSub(FSub(z, lo), p))

\* atan2 of y zero, of x zero, or of one or both infinite: q is pi/4 and h is
\* pi/2.
AtanEdge(y, x, p, q, h, t) ==
  CASE IsZero(y) -> Quadrant(y, x, y, y, Tilted(1, p, t), Tilted(-1, p, t))
    [] IsZero(x) -> Tilted(y.sg, h, t)
    [] IsInfinite(x) /\ IsInfinite(y) ->
         Quadrant(y, x, Tilted(1, q, t), Tilted(-1, q, t),
                  FAdd(FMul(Num(3), q), t), FSub(FMul(Num(-3), q), t))
    [] IsInfinite(x) -> Quadrant(y, x, Zero, SignedZero(-1), Tilted(1, p, t), Tilted(-1, p, t))
    [] OTHER -> Tilted(y.sg, h, t)

\* atan2 of finite y and x, neither zero: with k > 60 the sign of x is
\* dropped from m (m &= 1).
AtanBy(y, x, a, k) ==
  IF x = Num(1) THEN a
  ELSE Turned(y, IF k > 60 THEN FAbs(x) ELSE x, AngleOf(x, k, a, pi_o_2, pi_lo), pi, pi_lo)

\* atan2 past its special cases, a being atan(y) where x is 1 and
\* atan(fabs(y/x)) otherwise.
AtanMain(y, x, a) == AtanBy(y, x, a, WordShift(HighWord(y) - HighWord(x)))

\* Math.atan2
FAtan2(y, x) ==
  CASE IsNaN(y) \/ IsNaN(x) -> NaN
    [] x # Num(1) /\ (IsZero(y) \/ IsZero(x) \/ IsInfinite(y) \/ IsInfinite(x)) ->
         AtanEdge(y, x, pi, pi_o_4, pi_o_2, tiny)
    [] OTHER -> AtanMain(y, x, FAtan(IF x = Num(1) THEN y ELSE FAbs(FDiv(y, x))))

(***************************************************************************)
(* Math.pow, as V8 computes it (ieee754::pow, after the pow of fdlibm):    *)
(* double operations on x, y, their high and low words and the constants   *)
(* below, with the last quotient taken as V8 takes it.                     *)
(***************************************************************************)
\* A finite y is an integer, an odd integer (yisint of pow is 2 and 1).
IsInteger(y) == Len(y.m) = 0 \/ y.e >= 0 \/ (-y.e < MantBits /\ ~LowBits(y.m, -y.e))

IsOdd(y) ==
  /\ Len(y.m) # 0
  /\ y.e <= 0
  /\ -y.e < MantBits
  /\ ~LowBits(y.m, -y.e)
  /\ Limb(NShr(y.m, -y.e), 1) % 2 = 1

IsOddInteger(y) == IsFinite(y) /\ IsOdd(y)

\* The low word of a finite double is not 0.
LowWord(a) == LowBits(a.m, 32)

\* a with its low word set to 0
ClearLow(a) == IF IsFinite(a) THEN Round(a.sg, NShl(NShr(a.m, 32), 32), a.e, FALSE) ELSE a

\* The double of the sign sg with the high word h, the sign bit left out, and
\* the low word 0.
OfHighWord(sg, h) ==
  IF h < 2^20 THEN Round(sg, NFromInt(h), MinExp + 32, FALSE)
  ELSE Round(sg, NFromInt(2^20 + (h % 2^20)), (h \div 2^20) - 1 + MinExp + 32, FALSE)

\* A normal ax > 0 with the high word ix, ix having the exponent field 0x3ff
\* or 0x3fe: the fraction of ax, in [1, 2) or in [1/2, 1).
WithHighWord(ax, ix) == Round(1, ax.m, (ix \div 2^20) - \H3ff - (MantBits - 1), FALSE)

\* z * 2^n: n << 20 added to the high word of z, and scalbn(z, n) where the
\* result is subnormal.
Scalbn(z, n) == Round(z.sg, z.m, z.e + n, FALSE)

\* s * z for s = 1.0 or -1.0
Signed(sg, z) == IF sg = 1 THEN z ELSE FNeg(z)

\* dp_h[1], dp_l[1], L1 to L6, P1 to P5, lg2, lg2_h, lg2_l, ovt, cp, cp_h,
\* cp_l, ivln2, ivln2_h, ivln2_l, and the 0.3333333333333333333333 of the
\* series of log(x) near 1
PowLiterals ==
  Literals(<< <<1, <<5849624, 8722076, 4160156>>, 21>>,
              <<1, <<1350039, 2021297, 4897128>>, 28>>,
              <<1, <<5999999, 9999999, 4648725>>, 21>>,
              <<1, <<4285714, 2857855, 0184252>>, 21>>,
              <<1, <<3333333, 2981837, 7432918>>, 21>>,
              <<1, <<2727281, 2380853, 4006489>>, 21>>,
              <<1, <<2306607, 4577556, 1754067>>, 21>>,
              <<1, <<2069750, 1780033, 8417784>>, 21>>,
              <<1, <<1666666, 6666666, 6019037>>, 21>>,
              <<-1, <<2777777, 7777015, 5933842>>, 23>>,
              <<1, <<6613756, 3214379, 3436117>>, 25>>,
              <<-1, <<1653390, 2205465, 2515390>>, 26>>,
              <<1, <<4138136, 7970572, 3846039>>, 28>>,
              <<1, <<6931471, 8055994, 5286227>>, 21>>,
              <<1, <<6931471, 8246459, 9609375>>, 21>>,
              <<-1, <<1904654, 2999577, 6804525>>, 29>>,
              <<1, <<800856, 6259537, 2944372>>, 36>>,
              <<1, <<9617966, 9392597, 5554329>>, 21>>,
              <<1, <<9617967, 0095443, 7255859>>, 21>>,
              <<-1, <<7028461, 6509527, 5826516>>, 29>>,
              <<1, <<1442695, 0408889, 6338700>>, 20>>,
              <<1, <<1442695, 0216293, 3349609>>, 20>>,
              <<1, <<1925962, 9911266, 1746887>>, 28>>,
              <<1, <<3, 3333333, 3333333, 3333333>>, 22>> >>)

\* 1.0e300, the double 6724873095247260 * 2^944
huge == Round(1, Digits(<<67, 2487309, 5247260>>, 3), 944, FALSE)

\* The constants of pow by their names, dp_h, dp_l and bp from index 1.
PowNamed(t) ==
  [bp |-> <<Num(1), F(15, 1)>>, dp_h |-> <<Zero, t[1]>>, dp_l |-> <<Zero, t[2]>>,
   L |-> SubSeq(t, 3, 8), P |-> SubSeq(t, 9, 13),
   lg2 |-> t[14], lg2_h |-> t[15], lg2_l |-> t[16], ovt |-> t[17],
   cp |-> t[18], cp_h |-> t[19], cp_l |-> t[20],
   ivln2 |-> t[21], ivln2_h |-> t[22], ivln2_l |-> t[23], third |-> t[24],
   quarter |-> F(25, 2), half |-> F(5, 1), one |-> Num(1), two |-> Num(2),
   three |-> Num(3), two53 |-> Round(1, <<1>>, 53, FALSE),
   huge |-> huge, tiny |-> tiny]

PowConstants == PowNamed(PowLiterals)

\* s*huge*huge and s*tiny*tiny, h being huge or tiny
PowFlow(sg, h) == FMul(Signed(sg, h), h)

(***************************************************************************)
(* The values of pow are computed one after the other, each step from the  *)
(* record r of the values before it to the record of the values that are   *)
(* still read after it.                                                    *)
(***************************************************************************)
\* log2(ax) for ax with the high word ix, in the interval k of bp[k], n being
\* the exponent taken off:
\* u = ax - bp[k], v = 1/(ax + bp[k]), and t_h, ax + bp[k] high, of the high
\* word ((ix >> 1) | 0x20000000) + 0x00080000 + (k << 18)
PowLogUV(c, k, n, ax, ix) ==
  [ax |-> ax, k |-> k, n |-> n,
   u |-> FSub(ax, c.bp[k + 1]), v |-> FDiv(c.one, FAdd(ax, c.bp[k + 1])),
   t_h |-> OfHighWord(1, (ix \div 2) + \H20000000 + \H80000 + k * 2^18)]

\* ss = u*v and t_l = ax - (t_h - bp[k])
PowLogSS(c, r) ==
  [k |-> r.k, n |-> r.n, u |-> r.u, v |-> r.v, t_h |-> r.t_h,
   ss |-> FMul(r.u, r.v), t_l |-> FSub(r.ax, FSub(r.t_h, c.bp[r.k + 1]))]

\* s_h = ss with the low word 0, and s2 = ss*ss
PowLogSH(c, r) ==
  [k |-> r.k, n |-> r.n, u |-> r.u, v |-> r.v, t_h |-> r.t_h, t_l |-> r.t_l, ss |-> r.ss,
   s_h |-> ClearLow(r.ss), s2 |-> FMul(r.ss, r.ss)]

\* s_l = v*((u - s_h*t_h) - s_h*t_l),
\* r = s2*s2*(L1+s2*(L2+s2*(L3+s2*(L4+s2*(L5+s2*L6))))), and s2 = s_h*s_h
PowLogSL(c, r) ==
  [k |-> r.k, n |-> r.n, ss |-> r.ss, s_h |-> r.s_h,
   s_l |-> FMul(r.v, FSub(FSub(r.u, FMul(r.s_h, r.t_h)), FMul(r.s_h, r.t_l))),
   r |-> FMul(FMul(r.s2, r.s2), Poly(c.L, r.s2, 5, 1, c.L[6])),
   s2 |-> FMul(r.s_h, r.s_h)]

\* r += s_l*(s_h + ss)
PowLogR(c, r) ==
  [k |-> r.k, n |-> r.n, ss |-> r.ss, s_h |-> r.s_h, s_l |-> r.s_l, s2 |-> r.s2,
   r |-> FAdd(r.r, FMul(r.s_l, FAdd(r.s_h, r.ss)))]

\* t_h = 3.0 + s2 + r with the low word 0
PowLogTH(c, r) ==
  [k |-> r.k, n |-> r.n, ss |-> r.ss, s_h |-> r.s_h, s_l |-> r.s_l, s2 |-> r.s2, r |-> r.r,
   t_h |-> ClearLow(FAdd(FAdd(c.three, r.s2), r.r))]

\* t_l = r - ((t_h - 3.0) - s2) and u = s_h*t_h
PowLogTL(c, r) ==
  [k |-> r.k, n |-> r.n, ss |-> r.ss, s_l |-> r.s_l, t_h |-> r.t_h,
   t_l |-> FSub(r.r, FSub(FSub(r.t_h, c.three), r.s2)), u |-> FMul(r.s_h, r.t_h)]

\* v = s_l*t_h + t_l*ss
PowLogV(c, r) ==
  [k |-> r.k, n |-> r.n, u |-> r.u, v |-> FAdd(FMul(r.s_l, r.t_h), FMul(r.t_l, r.ss))]

\* p_h = u + v with the low word 0
PowLogPH(c, r) ==
  [k |-> r.k, n |-> r.n, u |-> r.u, v |-> r.v, p_h |-> ClearLow(FAdd(r.u, r.v))]

\* p_l = v - (p_h - u), z_h = cp_h*p_h and t = (double) n
PowLogPL(c, r) ==
  [k |-> r.k, p_h |-> r.p_h, p_l |-> FSub(r.v, FSub(r.p_h, r.u)),
   z_h |-> FMul(c.cp_h, r.p_h), t |-> Num(r.n)]

\* z_l = cp_l*p_h + p_l*cp + dp_l[k]
PowLogZ(c, r) ==
  [k |-> r.k, t |-> r.t, z_h |-> r.z_h,
   z_l |-> FAdd(FAdd(FMul(c.cp_l, r.p_h), FMul(r.p_l, c.cp)), c.dp_l[r.k + 1])]

\* t1 = (((z_h + z_l) + dp_h[k]) + t) with the low word 0
PowLogT1(c, r) ==
  [k |-> r.k, t |-> r.t, z_h |-> r.z_h, z_l |-> r.z_l,
   t1 |-> ClearLow(FAdd(FAdd(FAdd(r.z_h, r.z_l), c.dp_h[r.k + 1]), r.t))]

\* t2 = z_l - (((t1 - t) - dp_h[k]) - z_h)
PowLogT2(c, r) ==
  [t1 |-> r.t1,
   t2 |-> FSub(r.z_l, FSub(FSub(FSub(r.t1, r.t), c.dp_h[r.k + 1]), r.z_h))]

\* The interval of the fraction j of ax: |x| < sqrt(3/2), |x| < sqrt(3), and
\* from there on.
PowInterval(j) ==
  CASE j <= \H3988E -> 0
    [] j < \HBB67A -> 1
    [] OTHER -> 2

\* k, n and ix of the interval i: in the last one k = 0, n += 1 and
\* ix -= 0x00100000; ax takes the high word ix.
PowLogIn(c, ax, n, j, i) ==
  PowLogT2(c, PowLogT1(c, PowLogZ(c, PowLogPL(c, PowLogPH(c, PowLogV(c, PowLogTL(c,
    PowLogTH(c, PowLogR(c, PowLogSL(c, PowLogSH(c, PowLogSS(c,
      PowLogUV(c, IF i = 1 THEN 1 ELSE 0, IF i = 2 THEN n + 1 ELSE n,
               WithHighWord(ax, IF i = 2 THEN j + \H3fe00000 ELSE j + \H3ff00000),
               IF i = 2 THEN j + \H3fe00000 ELSE j + \H3ff00000)))))))))))))

\* n += (ix >> 20) - 0x3ff and j = ix & 0x000fffff
PowLogOf(c, ax, n, ix) ==
  PowLogIn(c, ax, n + (ix \div 2^20) - \H3ff, ix % 2^20, PowInterval(ix % 2^20))

\* t1 and t2 with t1 + t2 = log2(ax): a subnormal ax is first multiplied by
\* two53, with n = -53.
PowLog(c, ax, sub) ==
  PowLogOf(c, IF sub THEN FMul(ax, c.two53) ELSE ax, IF sub THEN -53 ELSE 0,
           HighWord(IF sub THEN FMul(ax, c.two53) ELSE ax))

\* log2(ax) for |1 - ax| <= 2^-20 and t = ax - 1:
\* w = (t*t)*(0.5 - t*(0.3333333333333333333333 - t*0.25)) and u = ivln2_h*t
PowNearW(c, t) ==
  [t |-> t, u |-> FMul(c.ivln2_h, t),
   w |-> FMul(FMul(t, t), FSub(c.half, FMul(t, FSub(c.third, FMul(t, c.quarter)))))]

\* v = t*ivln2_l - w*ivln2
PowNearV(c, r) == [u |-> r.u, v |-> FSub(FMul(r.t, c.ivln2_l), FMul(r.w, c.ivln2))]

\* t1 = u + v with the low word 0
PowNearT1(c, r) == [u |-> r.u, v |-> r.v, t1 |-> ClearLow(FAdd(r.u, r.v))]

\* t2 = v - (t1 - u)
PowNearT2(c, r) == [t1 |-> r.t1, t2 |-> FSub(r.v, FSub(r.t1, r.u))]

PowNear(c, ax) == PowNearT2(c, PowNearT1(c, PowNearV(c, PowNearW(c, FSub(ax, c.one)))))

\* y1 = y with the low word 0, beside t1 and t2 of t, and the sign s
PowY1(c, sg, y, t) == [t1 |-> t.t1, t2 |-> t.t2, sg |-> sg, y |-> y, y1 |-> ClearLow(y)]

\* p_l = (y-y1)*t1 + y*t2 and p_h = y1*t1
PowP(c, r) ==
  [sg |-> r.sg, p_l |-> FAdd(FMul(FSub(r.y, r.y1), r.t1), FMul(r.y, r.t2)),
   p_h |-> FMul(r.y1, r.t1)]

\* z = p_l + p_h, and i, its high word without the sign
PowZ(c, r) ==
  [sg |-> r.sg, p_l |-> r.p_l, p_h |-> r.p_h, z |-> FAdd(r.p_l, r.p_h),
   i |-> HighWord(FAdd(r.p_l, r.p_h))]

\* n = i + (0x00100000 >> (k+1)) for the high word i of z, |z| > 0.5, and
\* k = (i >> 20) - 0x3ff
PowRounded(i) == i + (\H100000 \div 2^((i \div 2^20) - \H3ff + 1))

\* t of that n, n & ~(0x000fffff >> k) in its high word with the sign of z,
\* and ((n & 0x000fffff) | 0x00100000) >> (20 - k), for k = (n >> 20) - 0x3ff
PowWholeT(sg, n, k) == OfHighWord(sg, n - (n % 2^(20 - k)))

PowWholeN(n, k) == ((n % 2^20) + \H100000) \div 2^(20 - k)

\* The k of n
PowWholeK(n) == (n \div 2^20) - \H3ff

\* With |z| > 0.5, n = [z + 0.5], negative for z < 0, and t is taken from
\* p_h; n = 0 otherwise.
PowExpN(c, r) ==
  [sg |-> r.sg, p_l |-> r.p_l,
   n |-> IF r.i > \H3fe00000
         THEN r.z.sg * PowWholeN(PowRounded(r.i), PowWholeK(PowRounded(r.i)))
         ELSE 0,
   p_h |-> IF r.i > \H3fe00000
           THEN FSub(r.p_h, PowWholeT(r.z.sg, PowRounded(r.i), PowWholeK(PowRounded(r.i))))
           ELSE r.p_h]

\* t = p_l + p_h with the low word 0
PowExpT(c, r) ==
  [sg |-> r.sg, n |-> r.n, p_l |-> r.p_l, p_h |-> r.p_h, t |-> ClearLow(FAdd(r.p_l, r.p_h))]

\* u = t*lg2_h and v = (p_l - (t - p_h))*lg2 + t*lg2_l
PowExpUV(c, r) ==
  [sg |-> r.sg, n |-> r.n, u |-> FMul(r.t, c.lg2_h),
   v |-> FAdd(FMul(FSub(r.p_l, FSub(r.t, r.p_h)), c.lg2), FMul(r.t, c.lg2_l))]

\* z = u + v
PowExpZ(c, r) == [sg |-> r.sg, n |-> r.n, u |-> r.u, v |-> r.v, z |-> FAdd(r.u, r.v)]

\* w = v - (z - u) and t = z*z
PowExpW(c, r) ==
  [sg |-> r.sg, n |-> r.n, z |-> r.z, w |-> FSub(r.v, FSub(r.z, r.u)), t |-> FMul(r.z, r.z)]

\* t1 = z - t*(P1+t*(P2+t*(P3+t*(P4+t*P5))))
PowExpT1(c, r) ==
  [sg |-> r.sg, n |-> r.n, z |-> r.z, w |-> r.w,
   t1 |-> FSub(r.z, FMul(r.t, Poly(c.P, r.t, 4, 1, c.P[5])))]

\* r = (z*t1) / ((t1-two) - (w+z*w))
PowExpR(c, r) ==
  [sg |-> r.sg, n |-> r.n, z |-> r.z,
   r |-> FDiv(FMul(r.z, r.t1), FSub(FSub(r.t1, c.two), FAdd(r.w, FMul(r.z, r.w))))]

\* s * z for z = 1.0 - (r - z) scaled by 2^n
PowScaled(c, r) == Signed(r.sg, Scalbn(FSub(c.one, FSub(r.r, r.z)), r.n))

\* s * 2^(p_l + p_h)
PowExp(c, r) ==
  PowScaled(c, PowExpR(c, PowExpT1(c, PowExpW(c, PowExpZ(c, PowExpUV(c, PowExpT(c,
    PowExpN(c, r))))))))

\* The result for z = p_l + p_h: overflow from 1024, underflow from -1075.
PowRange(c, r) ==
  CASE r.z.sg = 1 /\ r.i >= \H40900000
         /\ (r.i # \H40900000 \/ LowWord(r.z) \/ FGt(FAdd(r.p_l, c.ovt), FSub(r.z, r.p_h))) ->
         PowFlow(r.sg, c.huge)
    [] r.z.sg = -1 /\ r.i >= \H4090cc00
         /\ (r.i # \H4090cc00 \/ LowWord(r.z) \/ FLe(r.p_l, FSub(r.z, r.p_h))) ->
         PowFlow(r.sg, c.tiny)
    [] OTHER -> PowExp(c, r)

\* pow of finite x and y, past the special cases: s is the sign of the result,
\* ax = fabs(x), and ix and iy are the high words of x and y without the sign.
PowFinite(c, sg, ax, y, ix, iy) ==
  CASE iy > \H43f00000 ->
         IF (ix <= \H3fefffff) = (y.sg = -1) THEN FMul(c.huge, c.huge)
         ELSE FMul(c.tiny, c.tiny)
    [] iy > \H41e00000 /\ ix < \H3fefffff ->
         PowFlow(sg, IF y.sg = -1 THEN c.huge ELSE c.tiny)
    [] iy > \H41e00000 /\ ix > \H3ff00000 ->
         PowFlow(sg, IF y.sg = 1 THEN c.huge ELSE c.tiny)
    [] OTHER ->
         PowRange(c, PowZ(c, PowP(c, PowY1(c, sg, y,
           IF iy > \H41e00000 THEN PowNear(c, ax) ELSE PowLog(c, ax, ix < \H100000)))))

\* Math.pow(x, y) for y infinite and x not NaN: c compares |x| with 1.
PowInfinite(y, c) ==
  CASE c = 0 -> NaN
    [] (c > 0) = (y.sg = 1) -> Infinity(1)
    [] OTHER -> Zero

\* Math.pow(x, y) for x zero or infinite and y finite, not zero.
PowEdge(x, y, big) ==
  IF big THEN Infinity(IF IsOddInteger(y) THEN x.sg ELSE 1)
  ELSE SignedZero(IF IsOddInteger(y) THEN x.sg ELSE 1)

\* Math.pow
FPow(x, y) ==
  CASE IsNaN(y) -> NaN
    [] IsZero(y) -> Num(1)
    [] IsNaN(x) -> NaN
    [] IsInfinite(y) -> PowInfinite(y, FCmp(FAbs(x), Num(1)))
    [] y = Num(1) -> x
    [] y = Num(-1) -> FDiv(Num(1), x)
    [] y = Num(2) -> FMul(x, x)
    [] y = F(5, 1) /\ x.sg = 1 -> FSqrt(x)
    [] IsInfinite(x) -> PowEdge(x, y, y.sg = 1)
    [] IsZero(x) -> PowEdge(x, y, y.sg = -1)
    [] x.sg = -1 /\ ~IsInteger(y) -> NaN
    [] FAbs(x) = Num(1) -> Num(IF x.sg = -1 /\ IsOdd(y) THEN -1 ELSE 1)
    [] OTHER ->
         PowFinite(PowConstants, IF x.sg = -1 /\ IsOdd(y) THEN -1 ELSE 1, FAbs(x), y,
                   HighWord(x), HighWord(y))

(***************************************************************************)
(* colorConversions.ts                                                     *)
(***************************************************************************)
ColorSpaces == {"sRGB", "P3", "Rec2020", "XYZ", "LAB", "OKLCH"}

RGB(r, g, b) == [r |-> r, g |-> g, b |-> b]

XYZ(x, y, z) == [x |-> x, y |-> y, z |-> z]

xyY(x, y, Y) == [x |-> x, y |-> y, Y |-> Y]

RGBOf(t) == RGB(t[1], t[2], t[3])

XYZOf(t) == XYZ(t[1], t[2], t[3])

\* A matrix literal, its coefficients written in units of 10^-k.
Decimals(t, k) ==
  [i \in 1..Len(t) |-> [j \in 1..Len(t[i]) |-> F(t[i][j], k)] \o << >>] \o << >>

\* XYZ to RGB matrices
sRGB_MATRIX ==
  Decimals(<< <<32406, -15372, -4986>>,
              <<-9689, 18758, 415>>,
              <<557, -2040, 10570>> >>, 4)

P3_MATRIX ==
  Decimals(<< <<24934, -9313, -4027>>,
              <<-8295, 17627, 236>>,
              <<358, -761, 9569>> >>, 4)

REC2020_MATRIX ==
  Decimals(<< <<17167, -3557, -2534>>,
              <<-6667, 16165, 158>>,
              <<176, -428, 9421>> >>, 4)

\* RGB to XYZ matrices (literals of RGBToXYZ)
P3_TO_XYZ ==
  Decimals(<< <<4865, 2657, 1982>>,
              <<2290, 6917, 793>>,
              <<0, 451, 10439>> >>, 4)

REC2020_TO_XYZ ==
  Decimals(<< <<6370, 1446, 1689>>,
              <<2627, 6780, 593>>,
              <<0, 281, 10609>> >>, 4)

sRGB_TO_XYZ ==
  Decimals(<< <<4124, 3576, 1805>>,
              <<2126, 7152, 722>>,
              <<193, 1192, 9505>> >>, 4)

\* m[i][1] * a + m[i][2] * b + m[i][3] * c
Row(m, i, a, b, c) == FAdd(FAdd(FMul(m[i][1], a), FMul(m[i][2], b)), FMul(m[i][3], c))

\* The three rows of m applied to (a, b, c).
Rows(m, a, b, c) == [i \in 1..3 |-> Row(m, i, a, b, c)]

\* A parameter declared "colorSpace: ColorSpace = 'sRGB'": an omitted argument
\* ("undefined") takes the default.
DefaultSpace(colorSpace) == IF colorSpace = "undefined" THEN "sRGB" ELSE colorSpace

\* XYZToxyY past its guard, with sum = x + y + z.
xyYOfSum(xyz, sum) ==
  IF FEq(sum, Zero) THEN xyY(Zero, Zero, Zero)
  ELSE xyY(FDiv(xyz.x, sum), FDiv(xyz.y, sum), xyz.y)

XYZToxyY(xyz) == xyYOfSum(xyz, FAdd(FAdd(xyz.x, xyz.y), xyz.z))

\* The guard returning the luminance it was given.
xyYToXYZ_KeepsY(c) ==
  IF FEq(c.y, Zero) THEN XYZ(Zero, c.Y, Zero)
  ELSE XYZ(FDiv(FMul(c.x, c.Y), c.y),
           c.Y,
           FDiv(FMul(FSub(FSub(Num(1), c.x), c.y), c.Y), c.y))

\* z computed from 1 - x, without - y.
xyYToXYZ_ZWithoutY(c) ==
  IF FEq(c.y, Zero) THEN XYZ(Zero, Zero, Zero)
  ELSE XYZ(FDiv(FMul(c.x, c.Y), c.y),
           c.Y,
           FDiv(FMul(FSub(Num(1), c.x), c.Y), c.y))

xyYToXYZ(c) ==
  IF FEq(c.y, Zero) THEN XYZ(Zero, Zero, Zero)
  ELSE XYZ(FDiv(FMul(c.x, c.Y), c.y),
           c.Y,
           FDiv(FMul(FSub(FSub(Num(1), c.x), c.y), c.Y), c.y))

\* A 'LAB' case carrying the P3 matrix.
XYZToRGBMatrix_LABAsP3(colorSpace) ==
  CASE colorSpace \in {"P3", "LAB"} -> P3_MATRIX
    [] colorSpace = "Rec2020" -> REC2020_MATRIX
    [] OTHER -> sRGB_MATRIX

\* The switch of XYZToRGB.
XYZToRGBMatrix(colorSpace) ==
  CASE colorSpace = "P3" -> P3_MATRIX
    [] colorSpace = "Rec2020" -> REC2020_MATRIX
    [] OTHER -> sRGB_MATRIX

RGBOfMatrix(matrix, xyz) == RGBOf(Rows(matrix, xyz.x, xyz.y, xyz.z))

XYZToRGB(xyz, colorSpace) == RGBOfMatrix(XYZToRGBMatrix(DefaultSpace(colorSpace)), xyz)

\* The 'Rec2020' case carrying the P3 literal.
RGBToXYZMatrix_Rec2020AsP3(colorSpace) ==
  CASE colorSpace = "P3" -> P3_TO_XYZ
    [] colorSpace = "Rec2020" -> P3_TO_XYZ
    [] OTHER -> sRGB_TO_XYZ

\* The switch of RGBToXYZ.
RGBToXYZMatrix(colorSpace) ==
  CASE colorSpace = "P3" -> P3_TO_XYZ
    [] colorSpace = "Rec2020" -> REC2020_TO_XYZ
    [] OTHER -> sRGB_TO_XYZ

XYZOfMatrix(matrix, rgb) == XYZOf(Rows(matrix, rgb.r, rgb.g, rgb.b))

RGBToXYZ(rgb, colorSpace) == XYZOfMatrix(RGBToXYZMatrix(DefaultSpace(colorSpace)), rgb)

gammaCorrect(value) ==
  IF FLe(value, F(31308, 7)) THEN FMul(F(1292, 2), value)
  ELSE FSub(FMul(F(1055, 3), FPow(value, FDiv(Num(1), F(24, 1)))), F(55, 3))

\* The decoding exponent 2.2 in place of 2.4.
gammaUncorrect_Gamma22(value) ==
  IF FLe(value, F(4045, 5)) THEN FDiv(value, F(1292, 2))
  ELSE FPow(FDiv(FAdd(value, F(55, 3)), F(1055, 3)), F(22, 1))

gammaUncorrect(value) ==
  IF FLe(value, F(4045, 5)) THEN FDiv(value, F(1292, 2))
  ELSE FPow(FDiv(FAdd(value, F(55, 3)), F(1055, 3)), F(24, 1))

\* l of RGBToHSL
Lightness(max, min) == FDiv(FAdd(max, min), Num(2))

\* s of RGBToHSL
Saturation(max, min, diff, l) ==
  IF FEq(diff, Zero) THEN Zero
  ELSE IF FGt(l, F(5, 1)) THEN FDiv(diff, FSub(FSub(Num(2), max), min))
  ELSE FDiv(diff, FAdd(max, min))

\* (p - q) / diff + k
Sextant(p, q, diff, k) == FAdd(FDiv(FSub(p, q), diff), Num(k))

\* h of RGBToHSL before h /= 6: switch (max) { case r: ... case g: ... case
\* b: ... }; no case is taken where max is NaN, and h stays 0.
HueCase(r, g, b, max, diff) ==
  CASE FEq(max, r) -> Sextant(g, b, diff, IF FLt(g, b) THEN 6 ELSE 0)
    [] FEq(max, g) -> Sextant(b, r, diff, 2)
    [] FEq(max, b) -> Sextant(r, g, diff, 4)
    [] OTHER -> Zero

\* h of RGBToHSL
Hue(r, g, b, max, diff) ==
  IF FEq(diff, Zero) THEN Zero ELSE FDiv(HueCase(r, g, b, max, diff), Num(6))

\* h * 360, s * 100, l * 100
HSLOf(h, s, l) == [h |-> FMul(h, Num(360)), s |-> FMul(s, Num(100)), l |-> FMul(l, Num(100))]

HSLOfDiff(r, g, b, max, min, diff, l) ==
  HSLOf(Hue(r, g, b, max, diff), Saturation(max, min, diff, l), l)

HSLOfMaxMin(r, g, b, max, min) ==
  HSLOfDiff(r, g, b, max, min, FSub(max, min), Lightness(max, min))

\* RGBToHSL on r, g, b already divided by 255.
HSLOfUnit(r, g, b) == HSLOfMaxMin(r, g, b, FMax(FMax(r, g), b), FMin(FMin(r, g), b))

\* The channels of rgb divided by 255.
UnitRgb(rgb) == [i \in 1..3 |-> FDiv(<<rgb.r, rgb.g, rgb.b>>[i], Num(255))]

HSLOfChannels(u) == HSLOfUnit(u[1], u[2], u[3])

RGBToHSL(rgb) == HSLOfChannels(UnitRgb(rgb))

labF(t) ==
  IF FGt(t, F(8856, 6)) THEN FPow(t, FDiv(Num(1), Num(3)))
  ELSE FAdd(FMul(F(7787, 3), t), FDiv(Num(16), Num(116)))

LABOf(fx, fy, fz) ==
  [l |-> FSub(FMul(Num(116), fy), Num(16)),
   a |-> FMul(Num(500), FSub(fx, fy)),
   b |-> FMul(Num(200), FSub(fy, fz))]

\* xn, yn, zn in units of 10^-5
WhiteD65 == <<95047, 100000, 108883>>

\* fx, fy, fz
LabFs(xyz) == [i \in 1..3 |-> labF(FDiv(<<xyz.x, xyz.y, xyz.z>>[i], F(WhiteD65[i], 5)))]

LABOfFs(f) == LABOf(f[1], f[2], f[3])

XYZToLAB(xyz) == LABOfFs(LabFs(xyz))

\* h < 0 ? h + 360 : h
PositiveHue(h) == IF FLt(h, Zero) THEN FAdd(h, Num(360)) ELSE h

LABToOKLCH(lab) ==
  [l |-> FDiv(lab.l, Num(100)),
   c |-> FDiv(FSqrt(FAdd(FMul(lab.a, lab.a), FMul(lab.b, lab.b))), Num(100)),
   h |-> PositiveHue(FDiv(FMul(FAtan2(lab.b, lab.a), Num(180)), PI))]

Channel8_NoClamp(v) == FRound(v)

\* Math.round(Math.max(0, Math.min(255, v)))
Channel8(v) == FRound(FMax(Zero, FMin(Num(255), v)))

\* (c/255).toFixed(4)
Fraction255(c) == FToFixed(FDiv(c, Num(255)), 4)

\* `${(r/255).toFixed(4)} ${(g/255).toFixed(4)} ${(b/255).toFixed(4)}`
Fractions(c) == [i \in 1..3 |-> Fraction255(c[i])]

SpaceSeparated(t) == t[1] \o " " \o t[2] \o " " \o t[3]

\* `${r}, ${g}, ${b}`
Integers255(c) == [i \in 1..3 |-> NumStr(c[i])]

CommaSeparated(t) == t[1] \o ", " \o t[2] \o ", " \o t[3]

\* The switch of generateCSSColor on the rounded channels c = <<r, g, b>>.
CSSOfChannels(c, colorSpace) ==
  CASE colorSpace = "P3" -> "color(display-p3 " \o SpaceSeparated(Fractions(c)) \o ")"
    [] colorSpace = "Rec2020" -> "color(rec2020 " \o SpaceSeparated(Fractions(c)) \o ")"
    [] OTHER -> "rgb(" \o CommaSeparated(Integers255(c)) \o ")"

\* r, g, b of generateCSSColor
Channels8(rgb) == [i \in 1..3 |-> Channel8(<<rgb.r, rgb.g, rgb.b>>[i])]

generateCSSColor(rgb, colorSpace) == CSSOfChannels(Channels8(rgb), DefaultSpace(colorSpace))

isInGamut_Below255(rgb) ==
  /\ FGe(rgb.r, Zero) /\ FLt(rgb.r, Num(255))
  /\ FGe(rgb.g, Zero) /\ FLt(rgb.g, Num(255))
  /\ FGe(rgb.b, Zero) /\ FLt(rgb.b, Num(255))

isInGamut(rgb) ==
  /\ FGe(rgb.r, Zero) /\ FLe(rgb.r, Num(255))
  /\ FGe(rgb.g, Zero) /\ FLe(rgb.g, Num(255))
  /\ FGe(rgb.b, Zero) /\ FLe(rgb.b, Num(255))

\* 449 n^3 + 3525 n^2 + 6823.3 n + 5520.33, added left to right.
McCamy(n) ==
  FAdd(FAdd(FAdd(FMul(Num(449), FPow(n, Num(3))), FMul(Num(3525), FPow(n, Num(2)))),
            FMul(F(68233, 1), n)),
       F(552033, 2))

getColorTemperature_Guarded(x, y) ==
  IF FEq(y, F(1858, 4)) THEN Zero
  ELSE McCamy(FDiv(FSub(x, F(3320, 4)), FSub(F(1858, 4), y)))

getColorTemperature(x, y) == McCamy(FDiv(FSub(x, F(3320, 4)), FSub(F(1858, 4), y)))

(***************************************************************************)
(* State.  The picker's React state (ChromaticityColorPicker.tsx) with the *)
(* colour its pick handler had before clamping (scaledRgb), the App's      *)
(* state (selectedColor, << >> for null), whether the picker's colour      *)
(* effect is due (effectPending) and whether a render of the App is due    *)
(* (renderPending); and the call handled last, of a canvas pointer handler *)
(* or of a conversion function under study: the handler or function (fn),  *)
(* the pointer position or the argument (arg), and for a conversion its    *)
(* colour space argument (tag), the value it returned (result) and the     *)
(* argument the chain of calls started from (origin).                      *)
(***************************************************************************)
VARIABLES selectedColorSpace, currentColor, currentXY, luminance,
          showGamutOverlay, isDragging, scaledRgb, selectedColor, effectPending,
          renderPending, fn, origin, arg, tag, result

pickerVars == <<selectedColorSpace, currentColor, currentXY, luminance,
                showGamutOverlay, isDragging, scaledRgb, selectedColor, effectPending,
                renderPending>>

callVars == <<fn, origin, arg, tag, result>>

vars == <<selectedColorSpace, currentColor, currentXY, luminance,
          showGamutOverlay, isDragging, scaledRgb, selectedColor, effectPending,
          renderPending, fn, origin, arg, tag, result>>

\* The props the picker is mounted with (also their defaults).
initialColor == RGB(Num(255), Num(100), Num(100))

initialColorSpace == "sRGB"

\* The useState initialisers of the picker and of the App; the effects of
\* the first render are due.
PickerInit ==
  /\ selectedColorSpace = initialColorSpace
  /\ currentColor = initialColor
  /\ currentXY = XYZToxyY(RGBToXYZ(initialColor, initialColorSpace))
  /\ luminance = F(5, 1)
  /\ showGamutOverlay = TRUE
  /\ isDragging = FALSE
  /\ scaledRgb = initialColor
  /\ selectedColor = << >>
  /\ effectPending = TRUE
  /\ renderPending = FALSE

NoCall == fn = "none" /\ origin = Zero /\ arg = Zero /\ tag = "none" /\ result = Zero

(***************************************************************************)
(* ChromaticityColorPicker.tsx: the pick handler and the colour effect.    *)
(***************************************************************************)
CANVAS_WIDTH == 400
CANVAS_HEIGHT == 400
DIAGRAM_SIZE == 350
DIAGRAM_OFFSET_X == 25
DIAGRAM_OFFSET_Y == 25

Clamp01_NoLowerBound(v) == FMin(Num(1), v)

\* Math.max(0, Math.min(1, v))
Clamp01(v) == FMax(Zero, FMin(Num(1), v))

chromaticityX(x) == FDiv(Num(x - DIAGRAM_OFFSET_X), Num(DIAGRAM_SIZE))

chromaticityY(y) == FSub(Num(1), FDiv(Num(y - DIAGRAM_OFFSET_Y), Num(DIAGRAM_SIZE)))

\* The chromaticity picked at canvas position (x, y) under luminance lum.
newXY(x, y, lum) == xyY(Clamp01(chromaticityX(x)), Clamp01(chromaticityY(y)), lum)

\* gammaCorrect(rgb.c) * 255 on every channel.
ScaledRgb(rgb) ==
  RGBOf([i \in 1..3 |-> FMul(gammaCorrect(<<rgb.r, rgb.g, rgb.b>>[i]), Num(255))])

\* Math.max(0, Math.min(255, c)) on every channel.
correctedRgb(scaled) ==
  RGBOf([i \in 1..3 |-> FMax(Zero, FMin(Num(255), <<scaled.r, scaled.g, scaled.b>>[i]))])

PickOf(xy, scaled) == [newXY |-> xy, scaled |-> scaled, correctedRgb |-> correctedRgb(scaled)]

\* What handleCanvasInteraction computes for an event at canvas position
\* (x, y): the chromaticity it stores, the colour before clamping and the
\* colour it stores.
handleCanvasInteraction(x, y, lum, colorSpace) ==
  PickOf(newXY(x, y, lum), ScaledRgb(XYZToRGB(xyYToXYZ(newXY(x, y, lum)), colorSpace)))

XYZBundle(rgb, xyz, lab, colorSpace) ==
  [rgb |-> rgb, hsl |-> RGBToHSL(rgb), lab |-> lab, oklch |-> LABToOKLCH(lab),
   xy |-> XYZToxyY(xyz), colorSpace |-> colorSpace,
   cssColor |-> generateCSSColor(rgb, colorSpace)]

LABBundle(rgb, xyz, colorSpace) == XYZBundle(rgb, xyz, XYZToLAB(xyz), colorSpace)

\* The argument the colour effect passes to onColorChange.
ColorBundle(rgb, colorSpace) == LABBundle(rgb, RGBToXYZ(rgb, colorSpace), colorSpace)

\* The values the render derives for the badges.
colorTemperature == getColorTemperature(currentXY.x, currentXY.y)

isColorInGamut == isInGamut(currentColor)

(***************************************************************************)
(* The events the picker is driven with.                                   *)
(***************************************************************************)
\* Canvas positions: near the white point, an orange inside every gamut, in
\* the green corner outside every gamut, the two canvas corners (in the
\* margin), at the sRGB red primary, and near the blue primary.
PickCount == 5

PickPoints == << <<134, 260>>, <<182, 235>>, <<60, 95>>, <<0, 0>>, <<400, 400>>,
                 <<249, 259>>, <<78, 354>>, <<200, 200>> >>

Points == {PickPoints[i] : i \in 1..Min2(PickCount, Len(PickPoints))}

\* Slider positions: k / LumSteps to two decimals (the slider's step is
\* 0.01), and the initial 0.5.
LumSteps == 2

LumValues == {F(5, 1)} \cup {F((k * 100) \div LumSteps, 2) : k \in 0..LumSteps}

\* The tabs of the colour space selector.
TabSpaces == {"sRGB", "P3", "Rec2020"}

\* handleCanvasInteraction on every event of the model, as pairs of the
\* event and the result.
PickTable ==
  {<<k, handleCanvasInteraction(k[1][1], k[1][2], k[2], k[3])>> :
     k \in Points \X LumValues \X TabSpaces}

Picks(pt, lum, colorSpace) ==
  (CHOOSE e \in PickTable : e[1] = <<pt, lum, colorSpace>>)[2]

PickedColors == {initialColor} \cup {e[2].correctedRgb : e \in PickTable}

\* The colour effect on every colour of the model, as pairs of the colour
\* with its colour space and the bundle.
BundleTable == {<<k, ColorBundle(k[1], k[2])>> : k \in PickedColors \X TabSpaces}

Bundles(rgb, colorSpace) ==
  (CHOOSE e \in BundleTable : e[1] = <<rgb, colorSpace>>)[2]

(***************************************************************************)
(* The picker and the App.  An event is handled once the effects of the    *)
(* last commit have run.  A handler's state updates are committed with the *)
(* render that follows it; a setter called with the value the state holds  *)
(* causes no render.  The colour effect is due after a commit in which     *)
(* currentColor (an object, new with every pick), selectedColorSpace or    *)
(* onColorChange differs from the last commit.  The App stores every       *)
(* reported bundle, a new object, so a render of the App is due after      *)
(* every run of the effect (renderPending); that render hands the picker a *)
(* new handleColorChange.  The App's render takes place on its own or      *)
(* together with the render an event causes.                               *)
(***************************************************************************)
\* The commit after an event handler: updated says that the handler changed
\* state, depsChanged that it changed a dependency of the colour effect.
Commit(updated, depsChanged) ==
  \E withApp \in {b \in BOOLEAN : b => (updated /\ renderPending)} :
    /\ renderPending' = (renderPending /\ ~withApp)
    /\ effectPending' = ((updated /\ depsChanged) \/ withApp)

\* The position of a pointer event on the canvas: event.clientX - rect.left
\* and event.clientY - rect.top.
Pointer(pt) == [x |-> pt[1], y |-> pt[2]]

\* setCurrentXY and setCurrentColor of handleCanvasInteraction.
Pick(p) ==
  /\ currentXY' = p.newXY
  /\ scaledRgb' = p.scaled
  /\ currentColor' = p.correctedRgb

\* onClick={handleCanvasInteraction}
Click ==
  /\ ~effectPending
  /\ \E pt \in Points :
       /\ Pick(Picks(pt, luminance, selectedColorSpace))
       /\ arg' = Pointer(pt)
  /\ fn' = "onClick"
  /\ Commit(TRUE, TRUE)
  /\ UNCHANGED <<selectedColorSpace, luminance, showGamutOverlay, isDragging,
                 selectedColor, origin, tag, result>>

MouseMove_AlwaysPicks ==
  /\ ~effectPending
  /\ \E pt \in Points :
       /\ Pick(Picks(pt, luminance, selectedColorSpace))
       /\ arg' = Pointer(pt)
  /\ fn' = "onMouseMove"
  /\ Commit(TRUE, TRUE)
  /\ UNCHANGED <<selectedColorSpace, luminance, showGamutOverlay, isDragging,
                 selectedColor, origin, tag, result>>

\* onMouseMove={(e) => isDragging && handleCanvasInteraction(e)}
MouseMove ==
  /\ ~effectPending
  /\ \E pt \in Points :
       /\ IF isDragging THEN Pick(Picks(pt, luminance, selectedColorSpace))
          ELSE UNCHANGED <<currentXY, scaledRgb, currentColor>>
       /\ arg' = Pointer(pt)
  /\ fn' = "onMouseMove"
  /\ Commit(isDragging, TRUE)
  /\ UNCHANGED <<selectedColorSpace, luminance, showGamutOverlay, isDragging,
                 selectedColor, origin, tag, result>>

\* onMouseDown={() => setIsDragging(true)}
MouseDown ==
  /\ ~effectPending
  /\ isDragging' = TRUE
  /\ Commit(~isDragging, FALSE)
  /\ UNCHANGED <<selectedColorSpace, currentColor, currentXY, luminance,
                 showGamutOverlay, scaledRgb, selectedColor, callVars>>

\* onMouseUp={() => setIsDragging(false)}
MouseUp ==
  /\ ~effectPending
  /\ isDragging' = FALSE
  /\ Commit(isDragging, FALSE)
  /\ UNCHANGED <<selectedColorSpace, currentColor, currentXY, luminance,
                 showGamutOverlay, scaledRgb, selectedColor, callVars>>

SetLuminance_UpdatesY ==
  /\ ~effectPending
  /\ luminance' \in LumValues
  /\ currentXY' = [currentXY EXCEPT !.Y = luminance']
  /\ Commit(luminance' # luminance, FALSE)
  /\ UNCHANGED <<selectedColorSpace, currentColor, showGamutOverlay,
                 isDragging, scaledRgb, selectedColor, callVars>>

\* onValueChange={(value) => setLuminance(value[0])}
SetLuminance ==
  /\ ~effectPending
  /\ luminance' \in LumValues
  /\ Commit(luminance' # luminance, FALSE)
  /\ UNCHANGED <<selectedColorSpace, currentColor, currentXY, showGamutOverlay,
                 isDragging, scaledRgb, selectedColor, callVars>>

\* onValueChange={(value) => setSelectedColorSpace(value as ColorSpace)}
SelectColorSpace ==
  /\ ~effectPending
  /\ selectedColorSpace' \in TabSpaces
  /\ Commit(selectedColorSpace' # selectedColorSpace, TRUE)
  /\ UNCHANGED <<currentColor, currentXY, luminance, showGamutOverlay,
                 isDragging, scaledRgb, selectedColor, callVars>>

\* onClick={() => setShowGamutOverlay(!showGamutOverlay)}
ToggleOverlay ==
  /\ ~effectPending
  /\ showGamutOverlay' = ~showGamutOverlay
  /\ Commit(TRUE, FALSE)
  /\ UNCHANGED <<selectedColorSpace, currentColor, currentXY, luminance,
                 isDragging, scaledRgb, selectedColor, callVars>>

\* The colour effect: onColorChange, that is the App's handleColorChange,
\* with the bundle derived from the current colour; setSelectedColor with
\* the new object makes a render of the App due.
ColorEffect ==
  /\ effectPending
  /\ selectedColor' = <<Bundles(currentColor, selectedColorSpace)>>
  /\ effectPending' = FALSE
  /\ renderPending' = TRUE
  /\ UNCHANGED <<selectedColorSpace, currentColor, currentXY, luminance,
                 showGamutOverlay, isDragging, scaledRgb, callVars>>

\* The App renders with the bundle it stored and hands the picker a new
\* handleColorChange, a dependency of the colour effect.
AppRender ==
  /\ renderPending
  /\ ~effectPending
  /\ renderPending' = FALSE
  /\ effectPending' = TRUE
  /\ UNCHANGED <<selectedColorSpace, currentColor, currentXY, luminance,
                 showGamutOverlay, isDragging, scaledRgb, selectedColor, callVars>>

Init == PickerInit /\ NoCall

Next ==
  \/ Click
  \/ MouseMove
  \/ MouseDown
  \/ MouseUp
  \/ SetLuminance
  \/ SelectColorSpace
  \/ ToggleOverlay
  \/ ColorEffect
  \/ AppRender

Spec == Init /\ [][Next]_vars

\* React runs every effect and every render it has scheduled.
SpecLive == Spec /\ WF_vars(ColorEffect) /\ WF_vars(AppRender)

(***************************************************************************)
(* RGBToXYZ and XYZToRGB called on their own.                              *)
(***************************************************************************)
\* Channel values k * 255 / GridSteps, k in 0..GridSteps.
GridSteps == 2

Channels == {FDiv(Num(255 * k), Num(GridSteps)) : k \in 0..GridSteps}

RGBInputs == {RGB(r, g, b) : r \in Channels, g \in Channels, b \in Channels}

\* The colour space argument: a ColorSpace, or omitted ("undefined").
Tags == ColorSpaces \cup {"undefined"}

MatrixInit ==
  /\ PickerInit
  /\ fn = "input"
  /\ origin \in RGBInputs
  /\ arg = origin
  /\ tag \in Tags
  /\ result = origin

CallRGBToXYZ ==
  /\ fn = "input"
  /\ fn' = "RGBToXYZ"
  /\ arg' = result
  /\ result' = RGBToXYZ(result, tag)
  /\ UNCHANGED <<origin, tag, pickerVars>>

\* XYZToRGB applied to what RGBToXYZ returned, with the same colour space.
CallXYZToRGB ==
  /\ fn = "RGBToXYZ"
  /\ fn' = "XYZToRGB"
  /\ arg' = result
  /\ result' = XYZToRGB(result, tag)
  /\ UNCHANGED <<origin, tag, pickerVars>>

MatrixNext == CallRGBToXYZ \/ CallXYZToRGB

SpecMatrix == MatrixInit /\ [][MatrixNext]_vars

\* |a - b| <= tol
Within(a, b, tol) == FLe(FAbs(FSub(a, b)), tol)

RGBWithin(p, q, tol) ==
  /\ Within(p.r, q.r, tol)
  /\ Within(p.g, q.g, tol)
  /\ Within(p.b, q.b, tol)

RoundTripSpaces == {"sRGB", "P3", "Rec2020"}

\* C1 (as amended): for every RGB colour with channels in [0,255] and each of
\* the tags sRGB, P3 and Rec2020, XYZToRGB(RGBToXYZ(rgb, space), space)
\* reproduces rgb within 0.07 on every channel.
C1_RoundTripWithin007 ==
  (fn = "XYZToRGB" /\ tag \in RoundTripSpaces) => RGBWithin(result, origin, F(7, 2))

\* A round trip of white in P3 has been computed.
C1_Witness ==
  /\ fn = "XYZToRGB"
  /\ tag = "P3"
  /\ origin = RGB(Num(255), Num(255), Num(255))
  /\ result # origin

\* C1 (as claimed): the round trip reproduces rgb within 0.01 on every channel.
C1_RoundTripWithin001 ==
  (fn = "XYZToRGB" /\ tag \in RoundTripSpaces) => RGBWithin(result, origin, F(1, 2))

\* C7: for every tag other than 'P3' and 'Rec2020' ('sRGB', 'XYZ', 'LAB',
\* 'OKLCH' and an omitted tag) RGBToXYZ and XYZToRGB return exactly what the
\* sRGB matrices give, and return a colour for every input.
C7_FallbackIsSRGB ==
  tag \notin {"P3", "Rec2020"} =>
    /\ fn = "RGBToXYZ" => result = XYZOfMatrix(sRGB_TO_XYZ, arg)
    /\ fn = "XYZToRGB" => result = RGBOfMatrix(sRGB_MATRIX, arg)

\* XYZToRGB has returned under the tag 'LAB', where the sRGB and the P3
\* matrices give different colours.
C7_Witness ==
  /\ fn = "XYZToRGB"
  /\ tag = "LAB"
  /\ result = RGBOfMatrix(sRGB_MATRIX, arg)
  /\ result # RGBOfMatrix(P3_MATRIX, arg)

(***************************************************************************)
(* XYZToxyY and xyYToXYZ called on their own.                              *)
(***************************************************************************)
\* Component values k * 0.3127, k in -1..XYZSteps.
XYZSteps == 2

Components == {F(k * 3127, 4) : k \in -1..XYZSteps}

\* Colours whose components cancel in decimal but not as doubles: the sum
\* the code computes is a rounding error, not 0.
Cancelling ==
  {XYZ(F(1, 1), F(2, 1), F(-3, 1)), XYZ(F(7, 1), F(1, 1), F(-8, 1)),
   XYZ(F(3, 1), F(-1, 1), F(-2, 1)), XYZ(F(1, 1), F(7, 1), F(-8, 1))}

XYZInputs ==
  {XYZ(x, y, z) : x \in Components, y \in Components, z \in Components} \cup Cancelling

xyYInputs == {xyY(x, y, Y) : x \in Components, y \in Components, Y \in Components}

ChromaInit ==
  /\ PickerInit
  /\ \/ fn = "XYZ" /\ origin \in XYZInputs
     \/ fn = "xyY" /\ origin \in xyYInputs
  /\ arg = origin
  /\ tag = "none"
  /\ result = origin

CallXYZToxyY ==
  /\ fn = "XYZ"
  /\ fn' = "XYZToxyY"
  /\ arg' = result
  /\ result' = XYZToxyY(result)
  /\ UNCHANGED <<origin, tag, pickerVars>>

\* xyYToXYZ applied to an xyY input, or to what XYZToxyY returned.
CallxyYToXYZ ==
  /\ fn \in {"xyY", "XYZToxyY"}
  /\ fn' = "xyYToXYZ"
  /\ arg' = result
  /\ result' = xyYToXYZ(result)
  /\ UNCHANGED <<origin, tag, pickerVars>>

ChromaNext == CallXYZToxyY \/ CallxyYToXYZ

SpecChroma == ChromaInit /\ [][ChromaNext]_vars

XYZWithin(p, q, tol) ==
  /\ Within(p.x, q.x, tol)
  /\ Within(p.y, q.y, tol)
  /\ Within(p.z, q.z, tol)

\* A round trip XYZToxyY then xyYToXYZ of an XYZ colour (components >= 0)
\* with X + Y + Z > 0 has been computed.
RoundTripDone ==
  /\ fn = "xyYToXYZ"
  /\ "z" \in DOMAIN origin
  /\ FGe(origin.x, Zero) /\ FGe(origin.y, Zero) /\ FGe(origin.z, Zero)
  /\ FGt(FAdd(FAdd(origin.x, origin.y), origin.z), Zero)

\* C2 (as amended): for every XYZ colour with X+Y+Z > 0 and Y > 0,
\* xyYToXYZ(XYZToxyY(xyz)) reproduces xyz within 1e-6 on every component;
\* when Y is 0 (X or Z positive) the round trip returns {0,0,0}.
C2_RoundTripUnlessYZero ==
  RoundTripDone =>
    IF FEq(origin.y, Zero) THEN result = XYZ(Zero, Zero, Zero)
    ELSE XYZWithin(result, origin, F(1, 6))

\* A round trip of a colour with Y > 0 has been computed.
C2_Witness ==
  /\ RoundTripDone
  /\ origin.x = F(3127, 4)
  /\ origin.y = F(6254, 4)
  /\ result.x # Zero

\* C2 (as claimed): the round trip reproduces xyz within 1e-6 for every XYZ
\* colour with X+Y+Z > 0, those with Y = 0 included.
C2_RoundTripAlways ==
  RoundTripDone => XYZWithin(result, origin, F(1, 6))

\* C3: XYZToxyY returns {x:0,y:0,Y:0} whenever X+Y+Z is 0, and xyYToXYZ
\* returns {x:0,y:0,z:0} whenever the chromaticity y is 0, whatever x and Y.
C3_ZeroSentinel ==
  /\ (fn = "XYZToxyY" /\ FEq(FAdd(FAdd(arg.x, arg.y), arg.z), Zero))
       => result = xyY(Zero, Zero, Zero)
  /\ (fn = "xyYToXYZ" /\ FEq(arg.y, Zero)) => result = XYZ(Zero, Zero, Zero)

\* xyYToXYZ has returned from an input with y = 0 and x, Y nonzero.
C3_Witness ==
  /\ fn = "xyYToXYZ"
  /\ arg.y = Zero /\ arg.x # Zero /\ arg.Y # Zero
  /\ result = XYZ(Zero, Zero, Zero)

(***************************************************************************)
(* getColorTemperature called on its own.                                  *)
(***************************************************************************)
\* Coordinates k / TempSteps, k in 0..TempSteps, with the two constants of
\* the formula, and the chromaticities the picker holds.
TempSteps == 10

TempXs == {F(3320, 4)} \cup {F((k * 100) \div TempSteps, 2) : k \in 0..TempSteps}

TempYs == {F(1858, 4)} \cup {F((k * 100) \div TempSteps, 2) : k \in 0..TempSteps}

xyOf(c) == [x |-> c.x, y |-> c.y]

PickedXY ==
  {xyOf(XYZToxyY(RGBToXYZ(initialColor, initialColorSpace)))}
    \cup {xyOf(e[2].newXY) : e \in PickTable}

TempInputs == {[x |-> x, y |-> y] : x \in TempXs, y \in TempYs} \cup PickedXY

TempInit ==
  /\ PickerInit
  /\ fn = "xy"
  /\ origin \in TempInputs
  /\ arg = origin
  /\ tag = "none"
  /\ result = origin

CallGetColorTemperature ==
  /\ fn = "xy"
  /\ fn' = "getColorTemperature"
  /\ arg' = result
  /\ result' = getColorTemperature(result.x, result.y)
  /\ UNCHANGED <<origin, tag, pickerVars>>

TempNext == CallGetColorTemperature

SpecTemp == TempInit /\ [][TempNext]_vars

\* C11 (amended): getColorTemperature returns a number for every (x, y) and
\* never a sentinel: at y = 0.1858 the result is not finite, +Infinity for
\* x > 0.3320 and NaN for x <= 0.3320; for x and y in [0,1] with another y
\* it is finite.
C11_NonFiniteAtSingularity ==
  fn = "getColorTemperature" =>
    IF arg.y = F(1858, 4)
    THEN IF FGt(arg.x, F(3320, 4)) THEN result = Infinity(1) ELSE IsNaN(result)
    ELSE IsFinite(result)

\* getColorTemperature has returned NaN for y = 0.1858 and x = 0.3.
C11_Witness ==
  /\ fn = "getColorTemperature"
  /\ arg.y = F(1858, 4) /\ arg.x = F(3, 1)
  /\ IsNaN(result)

\* C11 (as claimed): at y = 0.1858 the result is infinite for every
\* x # 0.3320 and NaN for x = 0.3320.
C11_InfiniteUnlessCentred ==
  (fn = "getColorTemperature" /\ arg.y = F(1858, 4)) =>
    IF arg.x = F(3320, 4) THEN IsNaN(result) ELSE IsInfinite(result)

(***************************************************************************)
(* The picker: the chromaticity reported for a pick.                       *)
(***************************************************************************)
XYWithin(p, q, tol) == Within(p.x, q.x, tol) /\ Within(p.y, q.y, tol)

\* The chromaticity the picker starts with; a pick stores one with Y in [0,1].
InitialXY == XYZToxyY(RGBToXYZ(initialColor, initialColorSpace))

\* The colour effect has reported the colour of a pick that needed no clamping.
UnclampedPickReported ==
  /\ ~effectPending
  /\ selectedColor # << >>
  /\ currentXY # InitialXY
  /\ scaledRgb = currentColor

\* C12 (as claimed): for every pick whose colour needed no clamping, the
\* chromaticity reported through onColorChange equals the picked chromaticity
\* currentXY (here: within 0.001 on x and y).
C12_ReportedXYIsPickedXY ==
  UnclampedPickReported => XYWithin(selectedColor[1].xy, currentXY, F(1, 3))

(***************************************************************************)
(* The picker: the chromaticity stored by a pick.                          *)
(***************************************************************************)
\* clamp((px - 25) / 350, 0, 1)
ClampedX(px) ==
  IF px <= 25 THEN Zero
  ELSE IF px >= 375 THEN Num(1)
  ELSE FDiv(Num(px - 25), Num(350))

\* clamp(1 - (py - 25) / 350, 0, 1)
ClampedY(py) ==
  IF py <= 25 THEN Num(1)
  ELSE IF py >= 375 THEN Zero
  ELSE FSub(Num(1), FDiv(Num(py - 25), Num(350)))

InUnitSquare(c) ==
  /\ FGe(c.x, Zero) /\ FLe(c.x, Num(1))
  /\ FGe(c.y, Zero) /\ FLe(c.y, Num(1))

\* C13: a click, or a mousemove while dragging, at pointer position (px, py)
\* stores the chromaticity x = clamp((px - 25)/350, 0, 1),
\* y = clamp(1 - (py - 25)/350, 0, 1) with Y the luminance in force at the
\* event; so after any pick x and y lie in [0,1].
C13_PickStoresClampedXY ==
  /\ [][(Click \/ (MouseMove /\ isDragging)) =>
          currentXY' = xyY(ClampedX(arg'.x), ClampedY(arg'.y), luminance)]_vars
  /\ [](currentXY # InitialXY => InUnitSquare(currentXY))

\* A click in the top-left margin of the canvas, with the slider at 1, has
\* stored the clamped chromaticity.
C13_Witness ==
  /\ fn = "onClick"
  /\ arg = Pointer(<<0, 0>>)
  /\ luminance = Num(1)
  /\ currentXY = xyY(Zero, Num(1), Num(1))

(***************************************************************************)
(* The picker and the App: the cascade of the colour effect.               *)
(***************************************************************************)
UserEvent ==
  \/ Click
  \/ MouseMove
  \/ MouseDown
  \/ MouseUp
  \/ SetLuminance
  \/ SelectColorSpace
  \/ ToggleOverlay

\* Neither the colour effect nor a render of the App is due.
Quiescent == ~effectPending /\ ~renderPending

\* C14 (as claimed): once the user's input has ended, after mount or after
\* an interaction, onColorChange is invoked only finitely many times and the
\* system reaches a quiescent state, in which it stays.
C14_CascadeSettles == <>[][~UserEvent]_vars => <>[]Quiescent

(***************************************************************************)
(* The picker: what each control changes.                                  *)
(***************************************************************************)
\* What a pick at the pointer position p stores under the luminance and the
\* colour space of the state the event arrives in.
PickAt(p) == Picks(<<p.x, p.y>>, luminance, selectedColorSpace)

\* C15: moving the luminance slider, switching the colour space and toggling
\* the gamut overlay change only their own field; currentColor and currentXY
\* (with its Y) change only on a canvas click or a mousemove while dragging,
\* which uses the luminance and the colour space in force at the event.
C15_ControlsChangeOwnField ==
  [][/\ luminance' # luminance =>
          UNCHANGED <<selectedColorSpace, currentColor, currentXY,
                      showGamutOverlay, isDragging>>
     /\ selectedColorSpace' # selectedColorSpace =>
          UNCHANGED <<luminance, currentColor, currentXY, showGamutOverlay,
                      isDragging>>
     /\ showGamutOverlay' # showGamutOverlay =>
          UNCHANGED <<luminance, selectedColorSpace, currentColor, currentXY,
                      isDragging>>
     /\ (currentColor' # currentColor \/ currentXY' # currentXY) =>
          /\ Click \/ (MouseMove /\ isDragging)
          /\ currentXY' = PickAt(arg').newXY
          /\ currentXY'.Y = luminance
          /\ currentColor' = PickAt(arg').correctedRgb]_vars

\* After a pick under sRGB with the slider at 0.5, the slider has been moved
\* to 1, the colour space switched to P3 and the overlay hidden; the pick is
\* as it was stored.
C15_Witness ==
  /\ luminance = Num(1)
  /\ selectedColorSpace = "P3"
  /\ ~showGamutOverlay
  /\ currentXY = Picks(<<182, 235>>, F(5, 1), "sRGB").newXY
  /\ currentColor = Picks(<<182, 235>>, F(5, 1), "sRGB").correctedRgb

\* C16: a mousemove over the canvas picks if and only if the picker is
\* dragging, that is after a mousedown with no mouseup since; a mouseup ends
\* dragging; a mousemove while not dragging leaves currentColor and currentXY
\* unchanged; a click picks whatever the dragging flag.
C16_DragProtocol ==
  [][/\ MouseMove =>
          IF isDragging
          THEN currentXY' = PickAt(arg').newXY /\ currentColor' = PickAt(arg').correctedRgb
          ELSE UNCHANGED <<currentColor, currentXY>>
     /\ MouseUp => ~isDragging'
     /\ MouseDown => isDragging'
     /\ isDragging' # isDragging => (MouseDown \/ MouseUp)
     /\ Click =>
          currentXY' = PickAt(arg').newXY /\ currentColor' = PickAt(arg').correctedRgb]_vars

\* A mousemove has arrived after a mouseup, over another position than the
\* one picked, and has left the pick alone.
C16_Witness ==
  /\ fn = "onMouseMove"
  /\ ~isDragging
  /\ arg = Pointer(<<60, 95>>)
  /\ currentXY = Picks(<<182, 235>>, F(5, 1), "sRGB").newXY
  /\ currentColor = Picks(<<182, 235>>, F(5, 1), "sRGB").correctedRgb

(***************************************************************************)
(* The picker: the gamut badge.                                            *)
(***************************************************************************)
\* C4 (as claimed): the gamut test inspects the colour of the pick before it
\* is clamped, so a pick whose converted channels leave [0,255] is reported
\* as out of gamut.
C4_OutOfRangePickIsOutOfGamut == ~isInGamut(scaledRgb) => ~isColorInGamut

(***************************************************************************)
(* generateCSSColor, isInGamut and RGBToHSL called on their own.           *)
(***************************************************************************)
\* Channel values below, in and above [0,255], each with the integer
\* round(min(255, max(0, channel))).
DisplayChannels ==
  << <<F(-1, 1), 0>>, <<Zero, 0>>, <<F(1, 13), 0>>, <<F(5, 1), 1>>,
     <<Num(100), 100>>, <<F(2544, 1), 254>>, <<Num(255), 255>>,
     <<F(2551, 1), 255>>, <<Num(300), 255>> >>

DisplayValues == {DisplayChannels[i][1] : i \in 1..Len(DisplayChannels)}

DisplayInputs == {RGB(r, g, b) : r \in DisplayValues, g \in DisplayValues, b \in DisplayValues}

DisplayInit ==
  /\ PickerInit
  /\ fn = "input"
  /\ origin \in DisplayInputs
  /\ arg = origin
  /\ tag \in Tags
  /\ result = origin

CallGenerateCSSColor ==
  /\ fn = "input"
  /\ fn' = "generateCSSColor"
  /\ result' = generateCSSColor(arg, tag)
  /\ UNCHANGED <<origin, arg, tag, pickerVars>>

CallIsInGamut ==
  /\ fn = "input"
  /\ fn' = "isInGamut"
  /\ result' = isInGamut(arg)
  /\ UNCHANGED <<origin, arg, tag, pickerVars>>

CallRGBToHSL ==
  /\ fn = "input"
  /\ fn' = "RGBToHSL"
  /\ result' = RGBToHSL(arg)
  /\ UNCHANGED <<origin, arg, tag, pickerVars>>

DisplayNext == CallGenerateCSSColor \/ CallIsInGamut \/ CallRGBToHSL

SpecDisplay == DisplayInit /\ [][DisplayNext]_vars

\* round(min(255, max(0, v))) for a channel value of the inputs.
Rounded(v) == DisplayChannels[CHOOSE i \in 1..Len(DisplayChannels) : DisplayChannels[i][1] = v][2]

\* c / 255 to four decimals, for the integers the inputs round to.
Decimal4(c) ==
  CASE c = 0 -> "0.0000"
    [] c = 1 -> "0.0039"
    [] c = 100 -> "0.3922"
    [] c = 254 -> "0.9961"
    [] c = 255 -> "1.0000"

FormatCSS(r, g, b, space) ==
  CASE space = "P3" ->
         "color(display-p3 " \o Decimal4(r) \o " " \o Decimal4(g) \o " " \o Decimal4(b) \o ")"
    [] space = "Rec2020" ->
         "color(rec2020 " \o Decimal4(r) \o " " \o Decimal4(g) \o " " \o Decimal4(b) \o ")"
    [] OTHER ->
         "rgb(" \o ToString(r) \o ", " \o ToString(g) \o ", " \o ToString(b) \o ")"

\* C5: generateCSSColor maps each channel to round(min(255, max(0, channel)))
\* and then only formats: color(display-p3 ...) for P3 and color(rec2020 ...)
\* for Rec2020 with channel/255 to 4 decimals, rgb(r, g, b) for every other
\* tag; {255,100,100} gives "rgb(255, 100, 100)" for sRGB and
\* "color(display-p3 1.0000 0.3922 0.3922)" for P3.
C5_ClampRoundFormat ==
  fn = "generateCSSColor" =>
    /\ result = FormatCSS(Rounded(arg.r), Rounded(arg.g), Rounded(arg.b), tag)
    /\ (arg = initialColor /\ tag = "sRGB") => result = "rgb(255, 100, 100)"
    /\ (arg = initialColor /\ tag = "P3") =>
         result = "color(display-p3 1.0000 0.3922 0.3922)"

\* generateCSSColor has formatted {300, -0.1, 254.4} for Rec2020.
C5_Witness ==
  /\ fn = "generateCSSColor"
  /\ arg = RGB(Num(300), F(-1, 1), F(2544, 1))
  /\ tag = "Rec2020"
  /\ result = "color(rec2020 1.0000 0.0000 0.9961)"

\* C6: isInGamut(rgb) is true if and only if each of r, g, b lies in [0,255],
\* 0 and 255 included, whatever the colour space.
C6_RangeCheck ==
  fn = "isInGamut" =>
    result = (\A v \in {arg.r, arg.g, arg.b} : v \notin {F(-1, 1), F(2551, 1), Num(300)})

\* isInGamut has accepted {255, 0, 254.4}.
C6_Witness ==
  /\ fn = "isInGamut"
  /\ arg = RGB(Num(255), Zero, F(2544, 1))
  /\ result = TRUE

\* Every channel lies in [0,255].
InByteRange(rgb) ==
  \A v \in {rgb.r, rgb.g, rgb.b} : v \notin {F(-1, 1), F(2551, 1), Num(300)}

\* C8 (as claimed): for every RGB colour with channels in [0,255], RGBToHSL
\* returns h in [0,360), never 360, and s and l in [0,100]; for r = g = b it
\* returns h = 0 and s = 0, with l = 0 for black and l = 100 for white.
C8_HueBelow360 ==
  (fn = "RGBToHSL" /\ InByteRange(arg)) =>
    /\ FGe(result.h, Zero) /\ FLt(result.h, Num(360))
    /\ FGe(result.s, Zero) /\ FLe(result.s, Num(100))
    /\ FGe(result.l, Zero) /\ FLe(result.l, Num(100))
    /\ (arg.r = arg.g /\ arg.g = arg.b) => (result.h = Zero /\ result.s = Zero)
    /\ arg = RGB(Zero, Zero, Zero) => result.l = Zero
    /\ arg = RGB(Num(255), Num(255), Num(255)) => result.l = Num(100)

(***************************************************************************)
(* The picker: the LAB and OKLCH values of the reported bundle.            *)
(***************************************************************************)
\* C9 (as claimed): in every reachable state the LAB value reported through
\* onColorChange has l in [0,100] and the OKLCH value has l in [0,1].
C9_LightnessInRange ==
  selectedColor # << >> =>
    /\ FGe(selectedColor[1].lab.l, Zero) /\ FLe(selectedColor[1].lab.l, Num(100))
    /\ FGe(selectedColor[1].oklch.l, Zero) /\ FLe(selectedColor[1].oklch.l, Num(1))

(***************************************************************************)
(* gammaCorrect and gammaUncorrect called on their own.                    *)
(***************************************************************************)
\* Values k / GammaSteps, k in 0..GammaSteps, and values about the
\* threshold 0.0031308 of gammaCorrect.
GammaSteps == 50

GammaInputs ==
  {F((k * 1000) \div GammaSteps, 3) : k \in 0..GammaSteps}
    \cup {F(31307, 7), F(31308, 7), F(313080001, 11), F(3130805, 9),
          F(31308072, 10), F(31308073, 10), F(313081, 8)}

GammaInit ==
  /\ PickerInit
  /\ fn = "input"
  /\ origin \in GammaInputs
  /\ arg = origin
  /\ tag = "none"
  /\ result = origin

CallGammaCorrect ==
  /\ fn = "input"
  /\ fn' = "gammaCorrect"
  /\ arg' = result
  /\ result' = gammaCorrect(result)
  /\ UNCHANGED <<origin, tag, pickerVars>>

\* gammaUncorrect applied to what gammaCorrect returned.
CallGammaUncorrect ==
  /\ fn = "gammaCorrect"
  /\ fn' = "gammaUncorrect"
  /\ arg' = result
  /\ result' = gammaUncorrect(result)
  /\ UNCHANGED <<origin, tag, pickerVars>>

GammaNext == CallGammaCorrect \/ CallGammaUncorrect

SpecGamma == GammaInit /\ [][GammaNext]_vars

\* v was encoded by the linear branch; the encoded value is decoded by the
\* linear branch.
EncodedLinearly == FLe(origin, F(31308, 7))

DecodedLinearly == FLe(arg, F(4045, 5))

\* C10 (amended): for every v in [0,1], gammaUncorrect(gammaCorrect(v))
\* equals v within 1e-8.  A v encoded by the linear branch is decoded by the
\* linear branch, and a v >= 0.0031308073 is encoded and decoded by the power
\* branch, both within 1e-9; a v above 0.0031308 and up to 0.0031308072 is
\* encoded by the power branch and decoded by the linear branch, and comes
\* back off by more than 1e-9.
C10_InverseWithin1e8 ==
  fn = "gammaUncorrect" =>
    /\ Within(result, origin, F(1, 8))
    /\ EncodedLinearly => (DecodedLinearly /\ Within(result, origin, F(1, 9)))
    /\ FGe(origin, F(31308073, 10)) =>
         (~DecodedLinearly /\ Within(result, origin, F(1, 9)))
    /\ (~EncodedLinearly /\ FLe(origin, F(31308072, 10))) =>
         (DecodedLinearly /\ ~Within(result, origin, F(1, 9)))

\* A round trip of 0.003130805, encoded by the power branch and decoded by
\* the linear branch, has been computed.
C10_Witness ==
  /\ fn = "gammaUncorrect"
  /\ origin = F(3130805, 9)
  /\ DecodedLinearly
  /\ ~Within(result, origin, F(2, 9))

\* C10 (as claimed): for every v in [0,1] the round trip gives v within 1e-9,
\* and v is decoded by the branch that encoded it.
C10_InverseWithin1e9 ==
  fn = "gammaUncorrect" =>
    /\ Within(result, origin, F(1, 9))
    /\ EncodedLinearly <=> DecodedLinearly

====
